---- MODULE Spec2Model ----
(***************************************************************************)
(* A model of curare: corpus loading (io/adapters, io/builtin), the        *)
(* embedding cache (io/cache), clustering (cluster/kmeans), cluster        *)
(* classification (classify/heuristic, classify/llm) and a run of the      *)
(* command line entry point with its output materializer (cli.ts main).    *)
(*                                                                         *)
(* Optional values (undefined / null in the source) are sets with at most  *)
(* one element: {} is absent, {v} is present.                              *)
(*                                                                         *)
(* Vectors have integer coordinates and centroids are exact fractions, so  *)
(* distances and inertias are computed without rounding. The k-means of    *)
(* the ml-kmeans library is modelled from its description: seeding in the  *)
(* k-means++ style, then centroid relocation until no centroid moves.      *)
(***************************************************************************)
EXTENDS Integers, Sequences, FiniteSets, TLC

VARIABLES
    \* ---- embedding cache (io/cache.ts) ----
    disk,       \* cache directory: path -> {} (no file) or {file content}
    inst,       \* EmbeddingCache instances: slot -> [model, data, dirty]
    hist,       \* history per instance, for stating the claims (not read by the code)
    lastOp,     \* the operation the last step performed, with its result
    saved,      \* <<model, id, text, vec>> of a set() directly followed by a save(),
                \* while the file it wrote is still the one on disk
    ops,        \* number of operations performed (bounded by MaxOps)
    \* ---- adapter registry and corpus loading (io/adapters.ts, io/builtin.ts) ----
    adapters,   \* the registry: adapter names, probed from the head
    regs,       \* the adapter names in the order of the registerAdapter calls, for
                \* stating the claims (not read by the code)
    input,      \* the input path's content: a file's lines or a directory's entries
    loadRes,    \* the outcome of autoLoad(input): not run, {adapter, items} or thrown
    \* ---- clustering (cluster/kmeans.ts) ----
    cin,        \* a call of a function of kmeans.ts with its arguments
    cout,       \* its outcome: not run, the ClusterResult, or thrown
    \* ---- classification (classify/heuristic.ts, classify/llm.ts) ----
    qin,        \* a classification call: the function called and its arguments
    qout,       \* its outcome: not run, the verdict, or thrown
    \* ---- a run of the command line (cli.ts main) ----
    pc,         \* where main is: load, cache, embed, cluster, classify, done, failed
    opts,       \* the parsed options, and whether OPENROUTER_API_KEY is set
    embeddings, \* the vectors getTextEmbeddings has pushed so far
    provided,   \* the positions of the items the embedding provider was invoked
                \* for, in the order of the invocations
    clus,       \* k and the result of clusterEmbeddings
    results,    \* per cluster entry: {} while its classification is pending
    files       \* what the run has written under the output paths

cacheVars == <<disk, inst, hist, lastOp, saved, ops>>
loadVars == <<adapters, regs, input, loadRes>>
clusterVars == <<cin, cout>>
classifyVars == <<qin, qout>>
mainVars == <<pc, opts, embeddings, provided, clus, results, files>>
vars == <<cacheVars, loadVars, clusterVars, classifyVars, mainVars>>

\* What the operations of one component leave alone.
notCache == <<loadVars, clusterVars, classifyVars, mainVars>>
notLoad == <<cacheVars, clusterVars, classifyVars, mainVars>>
notCluster == <<cacheVars, loadVars, classifyVars, mainVars>>
notClassify == <<cacheVars, loadVars, clusterVars, mainVars>>

(***************************************************************************)
(*                         EMBEDDING CACHE                                 *)
(***************************************************************************)

\* Bound on the number of cache operations in one behaviour.
MaxOps == 4

\* Cache instance slots (a slot is re-used by constructing a new instance in it).
Slots == {"c1", "c2"}

\* Model tags, as sequences of characters. The first two differ only in the
\* character cachePath normalises, so they share one cache file.
ModelSlash == <<"m", "/", "x">>
ModelUnder == <<"m", "_", "x">>
ModelOther == <<"n">>
Models == {ModelSlash, ModelUnder, ModelOther}

Ids == {"id1", "id2"}

\* Texts, as JavaScript strings. TextLone is the one-code-unit string "\uD800"
\* (a lone surrogate), TextRepl is "�" (the replacement character).
TextA == "a"
TextLone == "\\uD800"
TextRepl == "\\uFFFD"
Texts == {TextA, TextLone, TextRepl}

\* A text of five long words, 103 characters in all.
TextRich ==
    "internationalization telecommunications counterrevolutionary electroencephalograph uncharacteristically"

\* Texts for the quality heuristic. TextEcho: one word five times, in three
\* casings (104 characters). TextPlain: 23 different words of at most 6
\* characters (114). TextEdge: five long words, 100 characters. TextThree: ten
\* long words, three of them different (207). TextBrink: 17 short and 3 long
\* words, all different (146). TextBlank: one space.
TextEcho ==
    "Internationalization internationalization INTERNATIONALIZATION internationalization internationalization"
TextPlain ==
    "the quick brown fox jumps over a lazy dog while seven wizard kings vex my bold jurors and then rest by quiet lakes"
TextEdge ==
    "internationalization telecommunications counterrevolutionary electroencephalograph misinterpretation"
TextThree ==
    "internationalization telecommunications counterrevolutionary internationalization internationalization internationalization internationalization internationalization internationalization internationalization"
TextBrink ==
    "the quick brown fox jumps over a lazy dog while seven wizard kings vex my bold jurors internationalization telecommunications counterrevolutionary"
TextBlank == " "

\* Vector components are numbers, written as integers. Two values that are no
\* finite number are coded as integers no finite component takes: NaN, and the
\* null that JSON.parse gives back for it.
NaN == -1
JsonNull == -2
Components == {1, NaN}
Vectors == {<<c>> : c \in Components}

\* Hash.update(text) encodes a string as UTF-8 (hex below); a lone surrogate
\* has no UTF-8 encoding and is written as U+FFFD.
Utf8(text) ==
    CASE text = TextA -> "61"
      [] text = TextLone -> "efbfbd"
      [] text = TextRepl -> "efbfbd"
      [] text = TextRich ->
            "696e7465726e6174696f6e616c697a6174696f6e2074656c65636f6d6d756e69636174696f6e7320636f756e7465727265766f6c7574696f6e61727920656c656374726f656e63657068616c6f677261706820756e6368617261637465726973746963616c6c79"

\* The first 16 hex digits of the MD5 digest of the bytes.
Md5Hex16(bytes) ==
    CASE bytes = "61" -> "0cc175b9c0f1b6a8"
      [] bytes = "efbfbd" -> "9b759040321a408a"
      [] bytes = Utf8(TextRich) -> "4a1aac745dc96254"

hash(text) == Md5Hex16(Utf8(text))

\* `${id}:${hash(text)}`: the digest has a fixed length, so the pair is recovered
\* from the string.
Key(id, text) == <<id, hash(text)>>

Keys == {Key(id, t) : id \in Ids, t \in Texts}

\* The (id, text) pairs set() is called with: every text under one id, and a
\* second id sharing one of the texts.
Pairs == ({"id1"} \X Texts) \cup {<<"id2", TextA>>}

\* JSON.stringify of a vector followed by JSON.parse: a finite number is written
\* in the shortest form that parses back to it, NaN and the infinities as null.
JsonRoundTripVec(vec) == [j \in DOMAIN vec |-> IF vec[j] = NaN THEN JsonNull ELSE vec[j]]

\* An entry of the embeddings map: the vector, and (history, not in the file's
\* bytes) the model tag of the instance whose set() recorded it.
Entry(vec, by) == [vec |-> vec, by |-> by]

JsonRoundTrip(data) ==
    [model |-> data.model,
     embeddings |-> [key \in DOMAIN data.embeddings |->
                        Entry(JsonRoundTripVec(data.embeddings[key].vec),
                              data.embeddings[key].by)]]

\* path.join(cacheDir, `embeddings-${model.replace(/\//g, '_')}.json`), for the one
\* cache directory all instances share.
cachePath(model) == [j \in DOMAIN model |-> IF model[j] = "/" THEN "_" ELSE model[j]]

Paths == {cachePath(m) : m \in Models}

EmptyMap == [key \in {} |-> Entry(<<>>, <<>>)]

EmptyData(model) == [model |-> model, embeddings |-> EmptyMap]

\* data of an instance: {} is null, {d} is the CacheEntry d.
DataOf(i) == inst[i].data

\* EmbeddingCache.get
get(i, id, text) ==
    IF DataOf(i) = {} THEN {}
    ELSE LET d == CHOOSE x \in DataOf(i) : TRUE
         IN  IF Key(id, text) \in DOMAIN d.embeddings
             THEN {d.embeddings[Key(id, text)].vec}
             ELSE {}

\* The in-memory data after load(): the file's content when it parses and carries
\* this instance's model tag, an empty entry set otherwise.
LoadedData_InvertedTagCheck(model) ==
    IF disk[cachePath(model)] = {}
    THEN EmptyData(model)
    ELSE LET f == CHOOSE x \in disk[cachePath(model)] : TRUE
         IN  IF f.model = model THEN EmptyData(model) ELSE f

LoadedData_NoTagCheck(model) ==
    IF disk[cachePath(model)] = {} THEN EmptyData(model)
    ELSE CHOOSE f \in disk[cachePath(model)] : TRUE

LoadedData(model) ==
    IF disk[cachePath(model)] = {}
    THEN EmptyData(model)
    ELSE LET f == CHOOSE x \in disk[cachePath(model)] : TRUE
         IN  IF f.model # model THEN EmptyData(model) ELSE f

\* The in-memory data after set(id, text, embedding).
DataAfterSet_KeyedById(i, id, text, vec) ==
    LET d == IF DataOf(i) = {} THEN EmptyData(inst[i].model)
             ELSE CHOOSE x \in DataOf(i) : TRUE
        key == <<id, "">>
    IN  [d EXCEPT !.embeddings =
            [k \in DOMAIN d.embeddings \cup {key} |->
                IF k = key THEN Entry(vec, inst[i].model) ELSE d.embeddings[k]]]

DataAfterSet(i, id, text, vec) ==
    LET d == IF DataOf(i) = {} THEN EmptyData(inst[i].model)
             ELSE CHOOSE x \in DataOf(i) : TRUE
        key == Key(id, text)
    IN  [d EXCEPT !.embeddings =
            [k \in DOMAIN d.embeddings \cup {key} |->
                IF k = key THEN Entry(vec, inst[i].model) ELSE d.embeddings[k]]]

\* Whether save() writes: `if (!this.dirty || !this.data) return`.
SaveWrites(i) == inst[i].dirty /\ DataOf(i) # {}

\* History of an instance since its construction: fresh (no operation yet),
\* onlySets (no load yet), setSince (a set() since the last load() or save()),
\* and, kept while onlySets: lastByPair (the vector last set for each (id, text)),
\* lastText (the text last set under each id and content hash).
FreshHist == [fresh |-> TRUE, onlySets |-> TRUE, setSince |-> FALSE,
              lastByPair |-> [p \in Ids \X Texts |-> {}],
              lastText |-> [k \in Keys |-> {}]]

\* new EmbeddingCache(cacheDir, model)
New(i, m) ==
    /\ ops < MaxOps
    /\ inst' = [inst EXCEPT ![i] = [model |-> m, data |-> {}, dirty |-> FALSE]]
    /\ hist' = [hist EXCEPT ![i] = FreshHist]
    /\ lastOp' = [op |-> "new", inst |-> i]
    /\ ops' = ops + 1
    /\ UNCHANGED <<disk, saved, notCache>>

Load_LowersDirty(i) ==
    /\ ops < MaxOps
    /\ inst' = [inst EXCEPT ![i].data = {LoadedData(inst[i].model)}, ![i].dirty = FALSE]
    /\ hist' = [hist EXCEPT ![i] = [FreshHist EXCEPT !.fresh = FALSE,
                                                      !.onlySets = FALSE]]
    /\ lastOp' = [op |-> "load", inst |-> i, fresh |-> hist[i].fresh]
    /\ ops' = ops + 1
    /\ UNCHANGED <<disk, saved, notCache>>

\* EmbeddingCache.load
Load(i) ==
    /\ ops < MaxOps
    /\ inst' = [inst EXCEPT ![i].data = {LoadedData(inst[i].model)}]
    /\ hist' = [hist EXCEPT ![i] = [FreshHist EXCEPT !.fresh = FALSE,
                                                      !.onlySets = FALSE]]
    /\ lastOp' = [op |-> "load", inst |-> i, fresh |-> hist[i].fresh]
    /\ ops' = ops + 1
    /\ UNCHANGED <<disk, saved, notCache>>

\* EmbeddingCache.set
Set(i, id, text, vec) ==
    /\ ops < MaxOps
    /\ inst' = [inst EXCEPT ![i].data = {DataAfterSet(i, id, text, vec)},
                            ![i].dirty = TRUE]
    /\ hist' = [hist EXCEPT ![i].fresh = FALSE, ![i].setSince = TRUE,
                            ![i].lastByPair[<<id, text>>] =
                                IF hist[i].onlySets THEN {vec} ELSE {},
                            ![i].lastText[<<id, hash(text)>>] =
                                IF hist[i].onlySets THEN {text} ELSE {}]
    /\ lastOp' = [op |-> "set", inst |-> i, id |-> id, text |-> text, vec |-> vec]
    /\ ops' = ops + 1
    /\ UNCHANGED <<disk, saved, notCache>>

\* EmbeddingCache.save
Save(i) ==
    /\ ops < MaxOps
    /\ LET writes == SaveWrites(i)
           path == cachePath(inst[i].model)
           d == CHOOSE x \in DataOf(i) : TRUE
           kept == IF writes THEN {s \in saved : cachePath(s[1]) # path} ELSE saved
       IN  /\ disk' = IF writes THEN [disk EXCEPT ![path] = {JsonRoundTrip(d)}]
                      ELSE disk
           /\ inst' = IF writes THEN [inst EXCEPT ![i].dirty = FALSE] ELSE inst
           /\ saved' = IF lastOp.op = "set" /\ lastOp.inst = i
                       THEN kept \cup {<<inst[i].model, lastOp.id, lastOp.text, lastOp.vec>>}
                       ELSE kept
           /\ lastOp' = [op |-> "save", inst |-> i, wrote |-> writes,
                         setSince |-> hist[i].setSince]
    /\ hist' = [hist EXCEPT ![i].fresh = FALSE, ![i].setSince = FALSE]
    /\ ops' = ops + 1
    /\ UNCHANGED notCache

CacheStart ==
    /\ disk = [p \in Paths |-> {}]
    /\ inst \in [Slots -> {[model |-> m, data |-> {}, dirty |-> FALSE] : m \in Models}]
    /\ hist = [i \in Slots |-> FreshHist]
    /\ lastOp = [op |-> "init"]
    /\ saved = {}
    /\ ops = 0

CacheStep ==
    \/ \E i \in Slots, m \in Models : New(i, m)
    \/ \E i \in Slots : Load(i)
    \/ \E i \in Slots, p \in Pairs, v \in Vectors : Set(i, p[1], p[2], v)
    \/ \E i \in Slots : Save(i)


(***************************************************************************)
(*                 ADAPTER REGISTRY AND CORPUS LOADING                     *)
(***************************************************************************)

\* Bound on the number of lines of an input file.
MaxLines == 3

\* A line of an input file, by what the adapters read from it:
\*   kind   "blank" (empty or white space), "garbage" (not JSON), "other" (JSON
\*          with none of the fields below), or the format whose fields it has:
\*          "alpaca" {instruction, output}, "sharegpt" {conversations: [{value}]},
\*          "oai" {messages: [{content}]}, "text" {text: string};
\*   id     {} when the object has no id field (or a null one), else {id};
\*   text   what the format's extraction rule yields ("" when it yields nothing:
\*          no assistant message, an empty text field, empty fields);
\*   canon  whether the bytes of the line are exactly JSON.stringify({id, text}).
\* Two lines are the same bytes exactly when they are the same record.
LineTexts == {"", TextA}
LineIds == {{}, {"0"}, {"x"}}
FormatKinds == {"alpaca", "sharegpt", "oai", "text"}

BlankLine == [kind |-> "blank", id |-> {}, text |-> "", canon |-> FALSE]
GarbageLine == [kind |-> "garbage", id |-> {}, text |-> "", canon |-> FALSE]

DataLines ==
    {[kind |-> kd, id |-> i, text |-> t, canon |-> FALSE] :
        kd \in FormatKinds \cup {"other"}, i \in LineIds, t \in LineTexts}
    \cup {[kind |-> "text", id |-> i, text |-> t, canon |-> TRUE] :
            i \in LineIds \ {{}}, t \in LineTexts}

WellFormedLines == {l \in DataLines : l.kind = "other" => l.text = ""}

Lines == {BlankLine, GarbageLine} \cup WellFormedLines

\* JSON.parse(line) succeeds
Parses(line) == line.kind \notin {"blank", "garbage"}

\* String(idx)
NumStr(n) ==
    CASE n = 0 -> "0" [] n = 1 -> "1" [] n = 2 -> "2" [] n = 3 -> "3"
      [] n = 4 -> "4" [] OTHER -> "5"

\* Directory entries: name, whether a regular file, content.
DirEntryNames == {"n1.md", "n2.TXT", "n3.png", "sub"}
IsFileName(name) == name # "sub"

\* path.extname(entry.name).toLowerCase()
ExtLower(name) ==
    CASE name = "n1.md" -> ".md"
      [] name = "n2.TXT" -> ".txt"
      [] name = "n3.png" -> ".png"
      [] OTHER -> ""

NoItems == <<>>

Item(id, text, orig) == [id |-> id, text |-> text, originalLine |-> orig]

registerAdapter_Appends(list, name) == list \o <<name>>

\* adapters.unshift(adapter)
registerAdapter(list, name) == <<name>> \o list

\* Adapters a caller registers: one that detects every input, one that detects
\* every file, one that detects nothing.
CustomAdapters == {"custom-any", "custom-file", "custom-none"}

\* The registry after io/builtin.ts has registered alpaca, sharegpt, oai,
\* text-jsonl and folder, each with registerAdapter (unshift).
BuiltinAdapters ==
    registerAdapter(registerAdapter(registerAdapter(registerAdapter(
        registerAdapter(<<>>, "alpaca"), "sharegpt"), "oai"), "text-jsonl"), "folder")

\* content.split('\n')[0] of a file: {} when the path is no file. An empty file
\* has the one (empty) line.
FirstLine(inp) ==
    IF inp.type # "file" THEN {}
    ELSE IF inp.lines = <<>> THEN {BlankLine} ELSE {inp.lines[1]}

\* adapter.detect(input, firstLine) of the built-in adapters and of the custom ones
detect(name, inp) ==
    LET fl == FirstLine(inp)
        firstParses == \E l \in fl : Parses(l)
        kindIs(kd) == \E l \in fl : l.kind = kd
    IN  CASE name = "alpaca" -> firstParses /\ kindIs("alpaca")
          [] name = "sharegpt" -> firstParses /\ kindIs("sharegpt")
          [] name = "oai" -> firstParses /\ kindIs("oai")
          [] name = "text-jsonl" -> firstParses /\ kindIs("text")
          [] name = "folder" -> inp.type = "dir"
          [] name = "custom-any" -> TRUE
          [] name = "custom-file" -> fl # {}
          [] OTHER -> FALSE

\* Whether a line-delimited adapter yields an item for a line.
Yields(name, line) ==
    /\ Parses(line)
    /\ CASE name = "alpaca" -> TRUE
         [] name = "sharegpt" -> line.kind = "sharegpt"
         [] name = "oai" -> line.kind = "oai" /\ line.text # ""
         [] name = "text-jsonl" -> line.kind = "text" /\ line.text # ""
         [] OTHER -> FALSE

\* The text an adapter extracts from a line it yields.
ExtractText(name, line) ==
    IF name = "alpaca" /\ line.kind # "alpaca" THEN "" ELSE line.text

\* `obj.id ?? String(idx++)`
ItemId(line, idx) == IF line.id = {} THEN NumStr(idx) ELSE CHOOSE x \in line.id : TRUE

\* Only the oai adapter keeps the line.
OriginalLine(name, line) == IF name = "oai" THEN {line} ELSE {}

\* adapter.load(input) of a line-delimited adapter, from line number j on, with
\* the sequence counter at idx.
RECURSIVE LoadLines(_, _, _, _)
LoadLines(name, lines, j, idx) ==
    IF j > Len(lines) THEN NoItems
    ELSE IF ~Yields(name, lines[j]) THEN LoadLines(name, lines, j + 1, idx)
    ELSE <<Item(ItemId(lines[j], idx), ExtractText(name, lines[j]),
                OriginalLine(name, lines[j]))>>
         \o LoadLines(name, lines, j + 1,
                      IF lines[j].id = {} THEN idx + 1 ELSE idx)

\* adapter.load(input) of the folder adapter, from entry number j on.
RECURSIVE LoadEntries(_, _)
LoadEntries(entries, j) ==
    IF j > Len(entries) THEN NoItems
    ELSE LET e == entries[j]
         IN  IF IsFileName(e.name) /\ ExtLower(e.name) \in {".txt", ".md", ".markdown"}
                /\ e.content # ""
             THEN <<Item(e.name, e.content, {})>> \o LoadEntries(entries, j + 1)
             ELSE LoadEntries(entries, j + 1)

\* adapter.load(input); a custom adapter yields one item that bears its name.
load(name, inp) ==
    IF name = "folder" THEN LoadEntries(inp.entries, 1)
    ELSE IF name \in CustomAdapters THEN <<Item("1", name, {})>>
    ELSE LoadLines(name, inp.lines, 1, 0)

\* The first adapter of the list, from position j on, whose detect answers true.
RECURSIVE FirstDetecting(_, _, _)
FirstDetecting(list, inp, j) ==
    IF j > Len(list) THEN {}
    ELSE IF detect(list[j], inp) THEN {list[j]}
    ELSE FirstDetecting(list, inp, j + 1)

\* The adapters whose detect the loop of autoLoad calls, in the order of the
\* calls: those from position j up to the first that answers true.
RECURSIVE Probed(_, _, _)
Probed(list, inp, j) ==
    IF j > Len(list) THEN <<>>
    ELSE IF detect(list[j], inp) THEN <<list[j]>>
    ELSE <<list[j]>> \o Probed(list, inp, j + 1)

\* autoLoad(input): {adapter, items}, or the thrown "No adapter found"; with the
\* adapters whose detect and whose load it called.
autoLoad(list, inp) ==
    LET found == FirstDetecting(list, inp, 1)
    IN  IF found = {}
        THEN [status |-> "error", adapter |-> "", items |-> NoItems,
              probed |-> Probed(list, inp, 1), loaded |-> <<>>]
        ELSE LET name == CHOOSE a \in found : TRUE
             IN  [status |-> "ok", adapter |-> name, items |-> load(name, inp),
                  probed |-> Probed(list, inp, 1), loaded |-> <<name>>]

NotLoaded ==
    [status |-> "none", adapter |-> "", items |-> NoItems, probed |-> <<>>,
     loaded |-> <<>>]

RECURSIVE SeqsUpTo(_, _)
SeqsUpTo(S, n) ==
    IF n = 0 THEN {<<>>}
    ELSE LET shorter == SeqsUpTo(S, n - 1)
         IN  shorter \cup {Append(q, x) : q \in {r \in shorter : Len(r) = n - 1}, x \in S}

FileInput(lines) == [type |-> "file", lines |-> lines, entries |-> <<>>]
DirInput(entries) == [type |-> "dir", lines |-> <<>>, entries |-> entries]
MissingInput == [type |-> "missing", lines |-> <<>>, entries |-> <<>>]

\* Directories: entries with pairwise distinct names, in the order readdir gives.
DirListings ==
    {q \in SeqsUpTo([name : DirEntryNames, content : LineTexts], 2) :
        \A a, b \in DOMAIN q : a # b => q[a].name # q[b].name}

Inputs ==
    {FileInput(q) : q \in SeqsUpTo(Lines, MaxLines)}
    \cup {DirInput(q) : q \in DirListings} \cup {MissingInput}

\* const { adapter, items } = await autoLoad(input)
AutoLoad ==
    /\ loadRes.status = "none"
    /\ loadRes' = autoLoad(adapters, input)
    /\ UNCHANGED <<adapters, regs, input, notLoad>>

\* Bound on the registerAdapter calls of a caller.
MaxRegs == 2

\* The registerAdapter calls of builtin.ts, in the order they are made.
BuiltinRegs == <<"alpaca", "sharegpt", "oai", "text-jsonl", "folder">>

\* registerAdapter(adapter) by a caller, before autoLoad
RegisterAdapter ==
    /\ loadRes.status = "none"
    /\ Len(regs) < Len(BuiltinRegs) + MaxRegs
    /\ \E name \in CustomAdapters :
          /\ adapters' = registerAdapter(adapters, name)
          /\ regs' = Append(regs, name)
    /\ UNCHANGED <<input, loadRes, notLoad>>

LoadStart ==
    /\ adapters = BuiltinAdapters
    /\ regs = BuiltinRegs
    /\ input \in Inputs
    /\ loadRes = NotLoaded

\* The inputs of a caller that registers adapters: files of at most one line,
\* directories, and a path that does not exist.
ProbeInputs ==
    {FileInput(q) : q \in SeqsUpTo(Lines, 1)}
    \cup {DirInput(q) : q \in DirListings} \cup {MissingInput}

RegistryStart ==
    /\ adapters = BuiltinAdapters
    /\ regs = BuiltinRegs
    /\ input \in ProbeInputs
    /\ loadRes = NotLoaded

\* The loader is idle in the specifications of the other components.
LoadIdle ==
    /\ adapters = BuiltinAdapters
    /\ regs = BuiltinRegs
    /\ input = MissingInput
    /\ loadRes = NotLoaded

(***************************************************************************)
(*                            CLUSTERING                                   *)
(***************************************************************************)

\* Bound on the number of vectors of a clustering call.
MaxN == 4

\* The coordinates the vectors of a clustering call are drawn from.
Coords == {0, 1, 3}

\* Bound on the relocation rounds of one k-means run.
MaxIter == 6

\* Embeddings are tuples of integers. A centroid is a mean, kept as the exact
\* fraction num / den: num the coordinate sums, den the number of members.
Centroid(num, den) == [num |-> num, den |-> den]
AsCentroid(point) == Centroid(point, 1)

RECURSIVE SumOver(_, _)
\* the sum of f[j] for j in the set S
SumOver(f, S) ==
    IF S = {} THEN 0
    ELSE LET j == CHOOSE x \in S : TRUE IN f[j] + SumOver(f, S \ {j})

\* squaredDistance(a, b) for a vector a and a centroid b, times b.den squared.
squaredDistance(a, b) ==
    SumOver([j \in DOMAIN a |-> (b.den * a[j] - b.num[j]) * (b.den * a[j] - b.num[j])],
            DOMAIN a)

\* squaredDistance(a, b) < squaredDistance(a, c)
Closer(a, b, c) ==
    squaredDistance(a, b) * c.den * c.den < squaredDistance(a, c) * b.den * b.den

SameCentroid(b, c) == \A j \in DOMAIN b.num : b.num[j] * c.den = c.num[j] * b.den

\* The index (from 0) of the centroid nearest to a; the lowest one on a tie.
Nearest(a, centers) ==
    CHOOSE c \in 0..(Len(centers) - 1) :
        /\ \A d \in 0..(Len(centers) - 1) : ~Closer(a, centers[d + 1], centers[c + 1])
        /\ \A d \in 0..(c - 1) : Closer(a, centers[c + 1], centers[d + 1])

RECURSIVE TupleFrom(_, _, _)
\* the tuple <<f[i], ..., f[n]>>
TupleFrom(f, i, n) == IF i > n THEN <<>> ELSE <<f[i]>> \o TupleFrom(f, i + 1, n)

Assign(data, centers) ==
    TupleFrom([i \in DOMAIN data |-> Nearest(data[i], centers)], 1, Len(data))

\* The mean of the members of cluster c; a cluster without members keeps its centre.
Relocate(data, clusters, centers) ==
    TupleFrom([c1 \in DOMAIN centers |->
        LET members == {i \in DOMAIN data : clusters[i] = c1 - 1}
        IN  IF members = {} THEN centers[c1]
            ELSE Centroid(TupleFrom([j \in DOMAIN data[1] |->
                                        SumOver([i \in DOMAIN data |-> data[i][j]], members)],
                                    1, Len(data[1])),
                          Cardinality(members))], 1, Len(centers))

\* Relocation rounds from the given centres until they stop moving.
RECURSIVE Lloyd(_, _, _)
Lloyd(data, centers, round) ==
    LET clusters == Assign(data, centers)
        moved == Relocate(data, clusters, centers)
    IN  IF round >= MaxIter \/ \A c \in DOMAIN centers : SameCentroid(moved[c], centers[c])
        THEN [clusters |-> clusters, centroids |-> moved]
        ELSE Lloyd(data, moved, round + 1)

\* The seedings of k centres: sequences of k indices of data. The first is any
\* index; each later one is drawn with a weight that is its squared distance to
\* the nearest centre chosen so far, so it is a vector that differs from all of
\* them when there is one, and any index when there is none.
RECURSIVE Seedings(_, _)
Seedings(data, k) ==
    IF k = 0 THEN {<<>>}
    ELSE LET earlier == Seedings(data, k - 1)
             far(q) == {i \in DOMAIN data : \A c \in DOMAIN q : data[q[c]] # data[i]}
         IN  UNION {{Append(q, i) : i \in IF far(q) = {} THEN DOMAIN data ELSE far(q)} :
                       q \in earlier}

\* kmeans(embeddings, k, { initialization: 'kmeans++' }) of ml-kmeans, for one
\* seeding: per vector the index of its cluster, and the k centroids.
kmeans(data, k, seeding) ==
    Lloyd(data, TupleFrom([c \in 1..k |-> AsCentroid(data[seeding[c]])], 1, k), 1)

\* The precondition of kmeans: violating it throws.
ValidK(data, k) == k >= 1 /\ k <= Len(data)

clusterEmbeddings_DropsLastCentroid(data, k, seeding) ==
    LET result == kmeans(data, k, seeding)
    IN  [clusters |-> result.clusters,
         centroids |-> SubSeq(result.centroids, 1, k - 1),
         k |-> k]

\* clusterEmbeddings(embeddings, k), for one seeding
clusterEmbeddings(data, k, seeding) ==
    LET result == kmeans(data, k, seeding)
    IN  [clusters |-> result.clusters, centroids |-> result.centroids, k |-> k]

NotClustered == [status |-> "none", result |-> <<>>]

\* A call of one of the functions of kmeans.ts with its arguments; the arguments
\* the called function does not take are left at NoCall's.
NoCall ==
    [op |-> "none", embeddings |-> <<>>, k |-> 0, kMax |-> {}, indices |-> <<>>,
     centroid |-> Centroid(<<>>, 1), n |-> 0]

\* A call of clusterEmbeddings(embeddings, k)
ClusterEmbeddings ==
    /\ cout.status = "none"
    /\ cin.op = "clusterEmbeddings"
    /\ \/ /\ ~ValidK(cin.embeddings, cin.k)
          /\ cout' = [status |-> "error", result |-> <<>>]
       \/ /\ ValidK(cin.embeddings, cin.k)
          /\ \E seeding \in Seedings(cin.embeddings, cin.k) :
                cout' = [status |-> "ok",
                         result |-> clusterEmbeddings(cin.embeddings, cin.k, seeding)]
    /\ UNCHANGED <<cin, notCluster>>

Points == {<<x>> : x \in Coords}

(***************************************************************************)
(*                     SAMPLING AND CLASSIFICATION                         *)
(***************************************************************************)

Min(a, b) == IF a < b THEN a ELSE b
Max(a, b) == IF a > b THEN a ELSE b

\* Array.prototype.sort with the comparator (a, b) => key(a) - key(b): the
\* positions of keys in ascending order of key, equal keys in their given order
\* (the sort is stable).
RECURSIVE OrderOf(_, _)
OrderOf(keys, S) ==
    IF S = {} THEN <<>>
    ELSE LET i == CHOOSE x \in S :
                    \A y \in S : keys[x] < keys[y] \/ (keys[x] = keys[y] /\ x <= y)
         IN  <<i>> \o OrderOf(keys, S \ {i})

SortedBy(seq, keys) ==
    LET order == OrderOf(keys, DOMAIN seq)
    IN  TupleFrom([j \in DOMAIN seq |-> seq[order[j]]], 1, Len(seq))

getNearestToCentroid_Unsorted(indices, embs, centroid, n) ==
    SubSeq(indices, 1, Min(n, Len(indices)))

\* getNearestToCentroid(indices, embeddings, centroid, n), for n >= 0
getNearestToCentroid(indices, embs, centroid, n) ==
    LET distance == [j \in DOMAIN indices |-> squaredDistance(embs[indices[j]], centroid)]
    IN  SubSeq(SortedBy(indices, distance), 1, Min(n, Len(indices)))

\* text.split(/\s+/).filter(w => w.length > 0): the tokens of a text
Tokens(text) ==
    CASE text = TextA ->
          <<"a">>
      [] text = TextRich ->
          <<"internationalization", "telecommunications", "counterrevolutionary",
            "electroencephalograph", "uncharacteristically">>
      [] text = TextEcho ->
          <<"Internationalization", "internationalization",
            "INTERNATIONALIZATION", "internationalization",
            "internationalization">>
      [] text = TextPlain ->
          <<"the", "quick", "brown", "fox", "jumps", "over", "a", "lazy", "dog",
            "while", "seven", "wizard", "kings", "vex", "my", "bold", "jurors",
            "and", "then", "rest", "by", "quiet", "lakes">>
      [] text = TextEdge ->
          <<"internationalization", "telecommunications", "counterrevolutionary",
            "electroencephalograph", "misinterpretation">>
      [] text = TextThree ->
          <<"internationalization", "telecommunications", "counterrevolutionary",
            "internationalization", "internationalization",
            "internationalization", "internationalization",
            "internationalization", "internationalization",
            "internationalization">>
      [] text = TextBrink ->
          <<"the", "quick", "brown", "fox", "jumps", "over", "a", "lazy", "dog",
            "while", "seven", "wizard", "kings", "vex", "my", "bold", "jurors",
            "internationalization", "telecommunications", "counterrevolutionary">>
      [] text = TextBlank ->
          <<>>
      [] OTHER -> <<text>>

\* w.toLowerCase()
LowerCase(w) ==
    CASE w \in {"Internationalization", "INTERNATIONALIZATION"} -> "internationalization"
      [] OTHER -> w

\* text.toLowerCase().split(/\s+/).filter(w => w.length > 0)
Words(text) ==
    TupleFrom([j \in DOMAIN Tokens(text) |-> LowerCase(Tokens(text)[j])], 1, Len(Tokens(text)))

\* w.length, for a lowercase token
WordLen(w) ==
    CASE w \in {"a"} -> 1
      [] w \in {"by", "my"} -> 2
      [] w \in {"and", "dog", "fox", "the", "vex"} -> 3
      [] w \in {"bold", "lazy", "over", "rest", "then"} -> 4
      [] w \in {"brown", "jumps", "kings", "lakes", "quick", "quiet", "seven",
                  "while"} -> 5
      [] w \in {"jurors", "wizard"} -> 6
      [] w \in {"misinterpretation"} -> 17
      [] w \in {"telecommunications"} -> 18
      [] w \in {"counterrevolutionary", "internationalization",
                  "uncharacteristically"} -> 20
      [] w \in {"electroencephalograph"} -> 21
      [] OTHER -> 1

\* text.length
CharLen(text) ==
    CASE text = TextA -> 1
      [] text = TextRich -> 103
      [] text = TextEcho -> 104
      [] text = TextPlain -> 114
      [] text = TextEdge -> 100
      [] text = TextThree -> 207
      [] text = TextBrink -> 146
      [] text = TextBlank -> 1
      [] OTHER -> 1

RECURSIVE Flatten(_)
\* the concatenation of a sequence of sequences
Flatten(seqs) == IF seqs = <<>> THEN <<>> ELSE Head(seqs) \o Flatten(Tail(seqs))

RECURSIVE Distinct(_)
\* the elements of a sequence in the order of their first occurrence
Distinct(seq) ==
    IF seq = <<>> THEN <<>>
    ELSE LET front == Distinct(SubSeq(seq, 1, Len(seq) - 1))
             last == seq[Len(seq)]
         IN  IF \E j \in DOMAIN front : front[j] = last THEN front ELSE Append(front, last)

Verdict(tag, rating) == [tag |-> tag, rating |-> rating]

classifyHeuristic_AnySignal(samples) ==
    IF samples = <<>> THEN Verdict(<<"empty">>, "low")
    ELSE
    LET words == Flatten([j \in DOMAIN samples |-> Words(samples[j])])
        uniqueWords == {words[j] : j \in DOMAIN words}
        total == SumOver([j \in DOMAIN samples |-> CharLen(samples[j])], DOMAIN samples)
        longWords == Cardinality({j \in DOMAIN words : WordLen(words[j]) > 6})
        isHighQuality ==
            /\ words # <<>>
            /\ \/ 10 * Cardinality(uniqueWords) > 3 * Len(words)
               \/ total > 100 * Len(samples)
               \/ 100 * longWords > 15 * Len(words)
    IN  Verdict(<<"misc">>, IF isHighQuality THEN "high" ELSE "low")

\* classifyHeuristic(samples). A tag is the sequence of the words joined by '_'.
classifyHeuristic(samples) ==
    IF samples = <<>> THEN Verdict(<<"empty">>, "low")
    ELSE
    LET words == Flatten([j \in DOMAIN samples |-> Words(samples[j])])
        uniqueWords == {words[j] : j \in DOMAIN words}
        total == SumOver([j \in DOMAIN samples |-> CharLen(samples[j])], DOMAIN samples)
        longWords == Cardinality({j \in DOMAIN words : WordLen(words[j]) > 6})
        counted == Distinct(SelectSeq(words, LAMBDA w : WordLen(w) > 4))
        count == [j \in DOMAIN counted |->
                     0 - Cardinality({x \in DOMAIN words : words[x] = counted[j]})]
        byCount == SortedBy(counted, count)
        topWords == SubSeq(byCount, 1, Min(3, Len(byCount)))
        isHighQuality ==
            /\ words # <<>>
            /\ 10 * Cardinality(uniqueWords) > 3 * Len(words)
            /\ total > 100 * Len(samples)
            /\ 100 * longWords > 15 * Len(words)
    IN  Verdict(IF topWords # <<>> THEN topWords ELSE <<"misc">>,
                IF isHighQuality THEN "high" ELSE "low")

\* A response of the chat completion endpoint: whether the transport succeeded
\* (response.ok); the body: a JSON object, JSON null, or no JSON at all; whether
\* the object carries an error; and the message content: {} when absent, else
\* whether it parses, and the tag and rating fields of the parsed object.
Content(parses, tag, rating) == [parses |-> parses, tag |-> tag, rating |-> rating]
Response(ok, body, error, content) ==
    [ok |-> ok, body |-> body, error |-> error, content |-> content]

Thrown == [tag |-> <<"thrown">>, rating |-> "none"]

\* options.apiKey ?? process.env.OPENROUTER_API_KEY, each {} when undefined
ApiKeyOf(optionKey, envKey) == IF optionKey # {} THEN optionKey ELSE envKey

\* An outcome of classifyWithLLM: the verdict it resolves with or the message of
\* the error it rejects with, and the number of requests it issued.
LlmReturned(verdict) ==
    [status |-> "ok", verdict |-> verdict, message |-> "", requests |-> 1]
LlmThrown(message, requests) ==
    [status |-> "error", verdict |-> Thrown, message |-> message, requests |-> requests]

MissingKey_AfterRequest == LlmThrown("OPENROUTER_API_KEY not set", 1)

\* if (!apiKey) throw, before the fetch
MissingKey == LlmThrown("OPENROUTER_API_KEY not set", 0)

TransportFailure_Retried == LlmThrown("OpenRouter error", 2)

\* if (!response.ok) throw, after the one fetch
TransportFailure == LlmThrown("OpenRouter error", 1)

VerdictOfContent_LowOnlyWhenLow(content) ==
    LET text == IF content = {} THEN Content(TRUE, {}, {})
                ELSE CHOOSE c \in content : TRUE
    IN  IF ~text.parses THEN Verdict(<<"parse_error">>, "low")
        ELSE Verdict(IF text.tag = {} THEN <<"unknown">>
                     ELSE <<CHOOSE t \in text.tag : TRUE>>,
                     IF text.rating = {"low"} THEN "low" ELSE "high")

\* text = content ?? '{}'; JSON.parse(text) in the try block, and its catch
VerdictOfContent(content) ==
    LET text == IF content = {} THEN Content(TRUE, {}, {})
                ELSE CHOOSE c \in content : TRUE
    IN  IF ~text.parses THEN Verdict(<<"parse_error">>, "low")
        ELSE Verdict(IF text.tag = {} THEN <<"unknown">>
                     ELSE <<CHOOSE t \in text.tag : TRUE>>,
                     IF text.rating = {"high"} THEN "high" ELSE "low")

\* classifyWithLLM(samples, options) for the two sources of the key and one
\* response. response.json() rejects on a body that is not JSON, and reading
\* json.error of a null body throws; neither is inside the try block.
classifyWithLLMRun(optionKey, envKey, response) ==
    IF ApiKeyOf(optionKey, envKey) \in {{}, {""}} THEN MissingKey
    ELSE IF ~response.ok THEN TransportFailure
    ELSE IF response.body = "malformed" THEN LlmThrown("SyntaxError", 1)
    ELSE IF response.body = "null" THEN LlmThrown("TypeError", 1)
    ELSE IF response.error THEN LlmReturned(Verdict(<<"api_error">>, "low"))
    ELSE LlmReturned(VerdictOfContent(response.content))

\* classifyWithLLM(samples, options) as main calls it, without the apiKey
\* option: a verdict, or Thrown.
classifyWithLLM(apiKey, response) ==
    LET run == classifyWithLLMRun({}, IF apiKey THEN {"key"} ELSE {}, response)
    IN  IF run.status = "error" THEN Thrown ELSE run.verdict

\* Bound on the number of samples of a classifyHeuristic call.
MaxSamples == 2

SampleTexts ==
    {TextA, TextRich, TextEcho, TextPlain, TextEdge, TextThree, TextBrink, TextBlank}

\* The keys of a call: undefined, the empty string, a key.
ApiKeys == {{}, {""}, {"key"}}

Contents ==
    {{}} \cup {{Content(FALSE, {}, {})}}
         \cup {{Content(TRUE, tag, rating)} :
                  tag \in {{}, {"t"}}, rating \in {{}, {"high"}, {"low"}, {"HIGH"}}}

Responses ==
    {Response(ok, body, error, content) :
        ok \in BOOLEAN, body \in {"object"}, error \in BOOLEAN, content \in Contents}
    \cup {Response(ok, body, FALSE, {}) : ok \in BOOLEAN, body \in {"malformed", "null"}}

NoResponse == Response(FALSE, "object", FALSE, {})

NotClassified == [status |-> "none", verdict |-> Thrown, message |-> "", requests |-> 0]

\* A call of classifyHeuristic(samples)
ClassifyHeuristic ==
    /\ qout.status = "none"
    /\ qin.op = "classifyHeuristic"
    /\ qout' = LlmReturned(classifyHeuristic(qin.samples))
    /\ UNCHANGED <<qin, notClassify>>

\* A call of classifyWithLLM(samples, options)
ClassifyWithLLM ==
    /\ qout.status = "none"
    /\ qin.op = "classifyWithLLM"
    /\ qout' = classifyWithLLMRun(qin.optionKey, qin.envKey, qin.response)
    /\ UNCHANGED <<qin, notClassify>>

NoClassifyCall ==
    [op |-> "none", samples |-> <<>>, optionKey |-> {}, envKey |-> {},
     response |-> NoResponse]

ClassifyStart ==
    /\ qout = NotClassified
    /\ \/ \E samples \in SeqsUpTo(SampleTexts, MaxSamples) :
             qin = [NoClassifyCall EXCEPT !.op = "classifyHeuristic", !.samples = samples]
       \/ \E optionKey \in ApiKeys, envKey \in ApiKeys, response \in Responses :
             qin = [NoClassifyCall EXCEPT !.op = "classifyWithLLM",
                                          !.optionKey = optionKey, !.envKey = envKey,
                                          !.response = response]

ClassifyIdle ==
    /\ qin = NoClassifyCall
    /\ qout = NotClassified

(***************************************************************************)
(*                      CHOOSING THE CLUSTER COUNT                         *)
(***************************************************************************)

RECURSIVE Factorial(_)
Factorial(n) == IF n <= 1 THEN 1 ELSE n * Factorial(n - 1)

\* The inertia of a k-means result (the sum over the vectors of the squared
\* distance to the centroid of their cluster), times Factorial(n) squared: a
\* centroid's denominator is at most n, so this is an integer.
Inertia(data, result) ==
    LET scale == Factorial(Len(data))
    IN  SumOver([i \in DOMAIN data |->
                    LET centroid == result.centroids[result.clusters[i] + 1]
                    IN  squaredDistance(data[i], centroid)
                            * (scale \div centroid.den) * (scale \div centroid.den)],
                DOMAIN data)

\* The inertias k-means can end with for k clusters, over its seedings.
InertiasOf(data, k) == {Inertia(data, kmeans(data, k, s)) : s \in Seedings(data, k)}

\* Math.round(Math.pow(n, 1/3))
CubeRootRound(n) ==
    CHOOSE r \in 0..n : /\ (2 * r - 1) * (2 * r - 1) * (2 * r - 1) <= 8 * n
                        /\ 8 * n < (2 * r + 1) * (2 * r + 1) * (2 * r + 1)

Deviations_FromFirst(inertias) ==
    LET numPoints == Len(inertias)
        off(i) == inertias[i] * (numPoints - 1) - inertias[1] * (numPoints - 1)
    IN  TupleFrom([i \in 1..numPoints |-> IF off(i) < 0 THEN 0 - off(i) ELSE off(i)],
                  1, numPoints)

\* The deviations the elbow loop compares: |inertias[i] - lineY(i)| for the line
\* through the first and the last inertia, times numPoints - 1.
Deviations(inertias) ==
    LET numPoints == Len(inertias)
        first == inertias[1]
        last == inertias[numPoints]
        off(i) == inertias[i] * (numPoints - 1) - first * (numPoints - 1)
                    - (last - first) * (i - 1)
    IN  TupleFrom([i \in 1..numPoints |-> IF off(i) < 0 THEN 0 - off(i) ELSE off(i)],
                  1, numPoints)

\* The loop over the candidates: bestK moves to candidate i when its deviation
\* is greater than maxDist. The code computes in doubles, so a deviation that is
\* exactly equal to maxDist can come out greater by a rounding error
\* (lineY of the last candidate is first + (last - first), and in doubles
\* 0.05 + (0.005 - 0.05) is not 0.005): ties is the set of candidates where it
\* does. The first candidate's deviation is computed as exactly 0.
RECURSIVE ElbowScan(_, _, _, _, _)
ElbowScan(dist, ties, i, bestK, maxDist) ==
    IF i > Len(dist) THEN bestK
    ELSE IF dist[i] > maxDist \/ (dist[i] = maxDist /\ i \in ties)
         THEN ElbowScan(dist, ties, i + 1, 1 + i, dist[i])
         ELSE ElbowScan(dist, ties, i + 1, bestK, maxDist)

\* The sets of candidates where rounding can break a tie: none when the first
\* and the last inertia are equal (lineY is then first + 0, with no rounding).
Roundings(first, last, numPoints) ==
    IF first = last THEN {{}} ELSE SUBSET (2..numPoints)

Elbow_CountsFromThree(inertias, ties) ==
    IF Len(inertias) <= 1 THEN 2
    ELSE 1 + ElbowScan(Deviations(inertias), ties, 1, 2, 0)

\* The elbow of inertias[1..P] (the inertias for k = 2 .. P + 1).
Elbow(inertias, ties) ==
    IF Len(inertias) <= 1 THEN 2
    ELSE ElbowScan(Deviations(inertias), ties, 1, 2, 0)

KFound(k) == [status |-> "ok", k |-> k]
KThrown == [status |-> "error", k |-> 0]

\* Math.min(Math.max(3, Math.round(Math.pow(n, 1/3))), 50)
DefaultMaxK(n) == Min(Max(3, CubeRootRound(n)), 50)

\* kMax ?? the default
MaxKOf(n, kMax) == IF kMax = {} THEN DefaultMaxK(n) ELSE CHOOSE x \in kMax : TRUE

\* A call of findOptimalK: its outcome, the inertias it computed and the
\* candidates where rounding broke a tie.
KRun(found, inertias, ties) ==
    [status |-> found.status, k |-> found.k, inertias |-> inertias, ties |-> ties]

\* findOptimalK(embeddings, kMax): the ways it can run, over the seedings of its
\* k-means runs and the rounding of the deviations.
findOptimalKRuns(data, kMax) ==
    LET n == Len(data)
        maxK == MaxKOf(n, kMax)
    IN  IF n < 3 THEN {KRun(KFound(Min(n, 2)), <<>>, {})}
        ELSE IF maxK <= 2 THEN {KRun(KFound(2), <<>>, {})}
        ELSE IF maxK > n THEN {KRun(KThrown, <<>>, {})}
        ELSE LET sets == TupleFrom([j \in 1..(maxK - 1) |-> InertiasOf(data, j + 1)],
                                   1, maxK - 1)
                 possible == UNION {sets[j] : j \in 1..(maxK - 1)}
                 chosen == {f \in [1..(maxK - 1) -> possible] :
                                \A j \in 1..(maxK - 1) : f[j] \in sets[j]}
             IN  UNION {{KRun(KFound(Elbow(TupleFrom(f, 1, maxK - 1), ties)),
                              TupleFrom(f, 1, maxK - 1), ties) :
                            ties \in Roundings(f[1], f[maxK - 1], maxK - 1)} :
                        f \in chosen}

\* findOptimalK(embeddings, kMax): the values it can return (KThrown: a k-means
\* run throws).
findOptimalK(data, kMax) ==
    {[status |-> run.status, k |-> run.k] : run \in findOptimalKRuns(data, kMax)}

\* A call of findOptimalK(embeddings, kMax)
FindOptimalK ==
    /\ cout.status = "none"
    /\ cin.op = "findOptimalK"
    /\ \E run \in findOptimalKRuns(cin.embeddings, cin.kMax) :
          cout' = [status |-> run.status, result |-> run]
    /\ UNCHANGED <<cin, notCluster>>

\* A call of getNearestToCentroid(indices, embeddings, centroid, n)
GetNearestToCentroid ==
    /\ cout.status = "none"
    /\ cin.op = "getNearestToCentroid"
    /\ cout' = [status |-> "ok",
                result |-> getNearestToCentroid(cin.indices, cin.embeddings,
                                                cin.centroid, cin.n)]
    /\ UNCHANGED <<cin, notCluster>>

RECURSIVE Ascending(_)
\* the elements of a set of numbers in ascending order
Ascending(S) ==
    IF S = {} THEN <<>>
    ELSE LET least == CHOOSE x \in S : \A y \in S : x <= y
         IN  <<least>> \o Ascending(S \ {least})

Reverse(seq) == TupleFrom([j \in DOMAIN seq |-> seq[Len(seq) + 1 - j]], 1, Len(seq))

\* The member lists of a sampling call: indices of the embeddings, each at most
\* once, in ascending or in descending order.
MemberLists(data) ==
    UNION {{Ascending(S), Reverse(Ascending(S))} : S \in SUBSET DOMAIN data}

\* The centroids of a sampling call: two of the points, and the mean of 0 and 3.
SampleCentroids == {AsCentroid(<<0>>), AsCentroid(<<1>>), Centroid(<<3>>, 2)}

ClusterStart ==
    /\ cout = NotClustered
    /\ \E data \in SeqsUpTo(Points, MaxN) \ {<<>>} :
          \/ \E k \in 0..(MaxN + 1) :
                cin = [NoCall EXCEPT !.op = "clusterEmbeddings", !.embeddings = data,
                                     !.k = k]
          \/ \E kMax \in {{}} \cup {{x} : x \in 0..MaxN} :
                cin = [NoCall EXCEPT !.op = "findOptimalK", !.embeddings = data,
                                     !.kMax = kMax]
          \/ \E indices \in MemberLists(data), centroid \in SampleCentroids,
                n \in 0..(MaxN + 1) :
                cin = [NoCall EXCEPT !.op = "getNearestToCentroid",
                                     !.embeddings = data, !.indices = indices,
                                     !.centroid = centroid, !.n = n]

ClusterIdle ==
    /\ cin = NoCall
    /\ cout = NotClustered

(***************************************************************************)
(*                   A RUN OF THE COMMAND LINE (cli.ts main)               *)
(***************************************************************************)

\* Bound on the number of lines of the corpus of a run.
MaxItems == 3

\* opts.samples, as parseArgs sets it
DefaultSamples == 10

\* The model tag of `new EmbeddingCache()`.
DefaultCacheModel == ModelOther

\* The cache instance of the run.
RunCache == "c1"

\* The embedding provider: extractor(text, { pooling: 'mean', normalize: true }),
\* a fixed vector per text.
Embed(text) ==
    CASE text = TextA -> <<0>>
      [] text = TextRich -> <<3>>
      [] OTHER -> <<1>>

\* The items of the run.
items == loadRes.items

\* clusterGroups, as [...clusterGroups.entries()]: the cluster indices in the
\* order of their first member, each with its members in ascending order.
\* Items are numbered from 1 here, clusters from 0 as in the source.
clusterEntries(clusters) ==
    LET ids == Distinct(clusters)
    IN  [e \in DOMAIN ids |->
            [id |-> ids[e],
             indices |-> SelectSeq(TupleFrom([i \in DOMAIN clusters |-> i], 1, Len(clusters)),
                                   LAMBDA i : clusters[i] = ids[e])]]

\* classifyOne([clusterId, indices]) up to its classification: the samples.
SamplesOf(entry) ==
    LET sampleIndices == getNearestToCentroid(entry.indices, embeddings,
                                              clus.centroids[entry.id + 1], opts.samples)
    IN  [j \in DOMAIN sampleIndices |-> items[sampleIndices[j]].text]

classifyOne_AllSamples(entry, classification) ==
    [id |-> entry.id,
     size |-> Len(entry.indices),
     tag |-> classification.tag,
     rating |-> classification.rating,
     items |-> [j \in DOMAIN entry.indices |-> items[entry.indices[j]].id],
     samples |-> SamplesOf(entry)]

\* classifyOne([clusterId, indices]), given what the classification returned
classifyOne(entry, classification) ==
    LET samples == SamplesOf(entry)
    IN  [id |-> entry.id,
         size |-> Len(entry.indices),
         tag |-> classification.tag,
         rating |-> classification.rating,
         items |-> [j \in DOMAIN entry.indices |-> items[entry.indices[j]].id],
         samples |-> SubSeq(samples, 1, Min(3, Len(samples)))]

\* results.sort((a, b) => b.size - a.size)
sortedResults(res) == SortedBy(res, [j \in DOMAIN res |-> 0 - res[j].size])

\* items.find(i => i.id === id): {} when there is none
find(list, id) ==
    LET hits == {i \in DOMAIN list : list[i].id = id}
    IN  IF hits = {} THEN {} ELSE {list[CHOOSE i \in hits : \A j \in hits : i <= j]}

\* JSON.stringify({ id: item.id, text: item.text })
NormalizedLine(item) == [kind |-> "text", id |-> {item.id}, text |-> item.text, canon |-> TRUE]

\* item.originalLine ?? JSON.stringify({ id: item.id, text: item.text })
OutLine(item) ==
    IF item.originalLine # {} THEN CHOOSE l \in item.originalLine : TRUE
    ELSE NormalizedLine(item)

\* cluster.items.map(id => ...).filter(Boolean): an id find does not resolve is
\* left out.
clusterItems(cluster) ==
    Flatten([j \in DOMAIN cluster.items |->
                LET item == find(items, cluster.items[j])
                IN  IF item = {} THEN <<>> ELSE <<OutLine(CHOOSE x \in item : TRUE)>>])

\* highItems (rating 'high') and lowItems (any other rating) of the sorted results
PartitionLines(sorted, high) ==
    Flatten([c \in DOMAIN sorted |->
                IF (sorted[c].rating = "high") = high THEN clusterItems(sorted[c]) ELSE <<>>])

\* fs.writeFile(path.join(dir, name), text) on a directory, a set of files
WriteFile(dir, name, text) ==
    {f \in dir : f.name # name} \cup {[name |-> name, text |-> text]}

RECURSIVE WriteAll(_, _)
WriteAll(dir, writes) ==
    IF writes = <<>> THEN dir
    ELSE WriteAll(WriteFile(dir, Head(writes).name, Head(writes).text), Tail(writes))

\* Folder mode: the files written under high/ (or low/), in the order written.
PartitionWrites(sorted, high) ==
    Flatten([c \in DOMAIN sorted |->
                IF (sorted[c].rating = "high") = high
                THEN Flatten([j \in DOMAIN sorted[c].items |->
                        LET item == find(items, sorted[c].items[j])
                        IN  IF item = {} THEN <<>>
                            ELSE <<[name |-> (CHOOSE x \in item : TRUE).id,
                                    text |-> (CHOOSE x \in item : TRUE).text]>>])
                ELSE <<>>])

\* The output paths: the metadata document ({} while not written) and where it
\* is (clusters.json of the output directory, or opts.out), high.jsonl and
\* low.jsonl as their sequences of lines, and the directories high/ and low/.
NoFiles == [meta |-> {}, metaAt |-> "", high |-> {}, low |-> {}, highDir |-> {}, lowDir |-> {}]

\* The `if (opts.outDir) ... else ...` of main
FilesWritten(sorted) ==
    LET output == [k |-> clus.k, clusters |-> sorted]
    IN  IF ~opts.outDir
        THEN [NoFiles EXCEPT !.meta = {output}, !.metaAt = "out"]
        ELSE IF loadRes.adapter = "folder"
        THEN [NoFiles EXCEPT !.meta = {output}, !.metaAt = "outDir",
                             !.highDir = {WriteAll({}, PartitionWrites(sorted, TRUE))},
                             !.lowDir = {WriteAll({}, PartitionWrites(sorted, FALSE))}]
        ELSE [NoFiles EXCEPT !.meta = {output}, !.metaAt = "outDir",
                             !.high = {PartitionLines(sorted, TRUE)},
                             !.low = {PartitionLines(sorted, FALSE)}]

\* useLlm = opts.classifyLlm ?? hasApiKey
useLlm == IF opts.classifyLlm = {} THEN opts.hasApiKey ELSE CHOOSE b \in opts.classifyLlm : TRUE

frameCacheHistory == <<hist, lastOp, saved, ops>>

\* autoLoad(opts.input), and the exit when no item was loaded
MainLoad ==
    /\ pc = "load"
    /\ loadRes' = autoLoad(adapters, input)
    /\ pc' = IF loadRes'.status = "error" \/ loadRes'.items = NoItems THEN "failed" ELSE "cache"
    /\ UNCHANGED <<adapters, regs, input, cacheVars, clusterVars, classifyVars, opts, provided,
                   embeddings, clus, results, files>>

\* const cache = new EmbeddingCache(); await cache.load()
MainCacheLoad ==
    /\ pc = "cache"
    /\ inst' = [inst EXCEPT ![RunCache] = [model |-> DefaultCacheModel,
                                           data |-> {LoadedData(DefaultCacheModel)},
                                           dirty |-> FALSE]]
    /\ pc' = "embed"
    /\ UNCHANGED <<disk, frameCacheHistory, loadVars, clusterVars, classifyVars,
                   opts, provided, embeddings, clus, results, files>>

MainEmbed_NoRecord ==
    /\ pc = "embed"
    /\ Len(embeddings) < Len(items)
    /\ LET item == items[Len(embeddings) + 1]
           cachedEmb == get(RunCache, item.id, item.text)
       IN  IF cachedEmb # {}
           THEN /\ embeddings' = Append(embeddings, CHOOSE v \in cachedEmb : TRUE)
                /\ UNCHANGED <<inst, provided>>
           ELSE /\ embeddings' = Append(embeddings, Embed(item.text))
                /\ provided' = Append(provided, Len(embeddings) + 1)
                /\ UNCHANGED inst
    /\ UNCHANGED <<pc, disk, frameCacheHistory, loadVars, clusterVars, classifyVars,
                   opts, clus, results, files>>

\* One round of the loop of getTextEmbeddings: the cached vector of the next
\* item, or the provider's, recorded in the cache.
MainEmbed ==
    /\ pc = "embed"
    /\ Len(embeddings) < Len(items)
    /\ LET item == items[Len(embeddings) + 1]
           cachedEmb == get(RunCache, item.id, item.text)
       IN  IF cachedEmb # {}
           THEN /\ embeddings' = Append(embeddings, CHOOSE v \in cachedEmb : TRUE)
                /\ UNCHANGED <<inst, provided>>
           ELSE /\ embeddings' = Append(embeddings, Embed(item.text))
                /\ provided' = Append(provided, Len(embeddings) + 1)
                /\ inst' = [inst EXCEPT
                              ![RunCache].data = {DataAfterSet(RunCache, item.id, item.text,
                                                               Embed(item.text))},
                              ![RunCache].dirty = TRUE]
    /\ UNCHANGED <<pc, disk, frameCacheHistory, loadVars, clusterVars, classifyVars,
                   opts, clus, results, files>>

\* The provider throws on a cache miss (or cannot be set up): main ends in its
\* catch handler.
MainEmbedThrows ==
    /\ pc = "embed"
    /\ Len(embeddings) < Len(items)
    /\ LET item == items[Len(embeddings) + 1]
       IN  get(RunCache, item.id, item.text) = {}
    /\ provided' = Append(provided, Len(embeddings) + 1)
    /\ pc' = "failed"
    /\ UNCHANGED <<cacheVars, loadVars, clusterVars, classifyVars, opts, embeddings, clus,
                   results, files>>

\* await cache.save(), once getTextEmbeddings has returned
MainCacheSave ==
    /\ pc = "embed"
    /\ Len(embeddings) = Len(items)
    /\ LET d == CHOOSE x \in DataOf(RunCache) : TRUE
       IN  IF SaveWrites(RunCache)
           THEN /\ disk' = [disk EXCEPT ![cachePath(inst[RunCache].model)] = {JsonRoundTrip(d)}]
                /\ inst' = [inst EXCEPT ![RunCache].dirty = FALSE]
           ELSE UNCHANGED <<disk, inst>>
    /\ pc' = "cluster"
    /\ UNCHANGED <<frameCacheHistory, loadVars, clusterVars, classifyVars,
                   opts, provided, embeddings, clus, results, files>>

NoClusters == [clusters |-> <<>>, centroids |-> <<>>, k |-> 0]

\* const k = opts.k ?? findOptimalK(embeddings); clusterEmbeddings(embeddings, k)
MainCluster ==
    /\ pc = "cluster"
    /\ \E found \in IF opts.k = {} THEN findOptimalK(embeddings, {})
                    ELSE {KFound(CHOOSE x \in opts.k : TRUE)} :
          IF found.status = "ok" /\ ValidK(embeddings, found.k)
          THEN \E seeding \in Seedings(embeddings, found.k) :
                  /\ clus' = clusterEmbeddings(embeddings, found.k, seeding)
                  /\ results' = [e \in DOMAIN clusterEntries(clus'.clusters) |-> {}]
                  /\ pc' = "classify"
          ELSE /\ pc' = "failed"
               /\ UNCHANGED <<clus, results>>
    /\ UNCHANGED <<cacheVars, loadVars, clusterVars, classifyVars, opts, provided, embeddings, files>>

\* The responses the classification endpoint gives in a run.
RunResponses ==
    {Response(TRUE, "object", FALSE, {Content(TRUE, {"t"}, {"high"})}),
     Response(TRUE, "object", FALSE, {Content(TRUE, {"t"}, {"low"})}),
     Response(FALSE, "object", FALSE, {})}

\* classifyOne of one cluster entry resolves; with the LLM the entries resolve
\* in any order, and a rejection ends main in its catch handler.
MainClassify ==
    /\ pc = "classify"
    /\ \E e \in DOMAIN results :
          /\ results[e] = {}
          /\ LET entry == clusterEntries(clus.clusters)[e]
             IN  \E classification \in
                        IF useLlm
                        THEN {classifyWithLLM(opts.hasApiKey, r) : r \in RunResponses}
                        ELSE {classifyHeuristic(SamplesOf(entry))} :
                    IF classification = Thrown
                    THEN pc' = "failed" /\ UNCHANGED results
                    ELSE /\ results' = [results EXCEPT ![e] = {classifyOne(entry, classification)}]
                         /\ UNCHANGED pc
    /\ UNCHANGED <<cacheVars, loadVars, clusterVars, classifyVars, opts, provided, embeddings, clus, files>>

MainOutput_AfterFirstResolved ==
    /\ pc = "classify"
    /\ \E e \in DOMAIN results : results[e] # {}
    /\ files' = FilesWritten(sortedResults(Flatten([e \in DOMAIN results |->
                    IF results[e] = {} THEN <<>> ELSE <<CHOOSE x \in results[e] : TRUE>>])))
    /\ pc' = "done"
    /\ UNCHANGED <<cacheVars, loadVars, clusterVars, classifyVars, opts, provided, embeddings, clus, results>>

\* Once Promise.all has resolved: sort the results and write the output.
MainOutput ==
    /\ pc = "classify"
    /\ \A e \in DOMAIN results : results[e] # {}
    /\ files' = FilesWritten(sortedResults([e \in DOMAIN results |->
                                               CHOOSE x \in results[e] : TRUE]))
    /\ pc' = "done"
    /\ UNCHANGED <<cacheVars, loadVars, clusterVars, classifyVars, opts, provided, embeddings, clus, results>>

\* The lines of the corpus files of a run, per format: with and without an id.
RunTexts == {TextA, TextRich}
RunLines(kd) == {[kind |-> kd, id |-> i, text |-> t, canon |-> FALSE] :
                    i \in {{}, {"0"}}, t \in RunTexts}

Corpora ==
    {FileInput(q) : q \in UNION {SeqsUpTo(RunLines(kd), MaxItems) : kd \in FormatKinds}}
    \cup {DirInput(q) : q \in {d \in DirListings : \A j \in DOMAIN d : d[j].content = TextA}}

\* The cache file a run of an earlier day left: the vector of the text "a" under
\* the id "0".
EarlierFile ==
    [model |-> DefaultCacheModel,
     embeddings |-> [key \in {Key("0", TextA)} |-> Entry(Embed(TextA), DefaultCacheModel)]]

Options ==
    [outDir : BOOLEAN, k : {{}, {3}}, samples : {DefaultSamples},
     classifyLlm : {{}, {TRUE}}, hasApiKey : BOOLEAN]

\* Corpora of four lines, one more than a cluster entry keeps samples of, run
\* with -k 1 or -k 2.
LongLines == {l \in RunLines("text") : l.id = {}}
LongCorpora ==
    {FileInput(<<l1, l2, l3, l4>>) :
        l1 \in LongLines, l2 \in LongLines, l3 \in LongLines, l4 \in LongLines}

LongCorpusOptions ==
    [outDir : {TRUE}, k : {{1}, {2}}, samples : {DefaultSamples},
     classifyLlm : {{}, {TRUE}}, hasApiKey : BOOLEAN]

MainStart ==
    /\ pc = "load"
    /\ embeddings = <<>>
    /\ provided = <<>>
    /\ clus = NoClusters
    /\ results = <<>>
    /\ files = NoFiles

MainIdle ==
    /\ pc = "idle"
    /\ opts = [outDir |-> TRUE, k |-> {}, samples |-> DefaultSamples,
               classifyLlm |-> {}, hasApiKey |-> FALSE]
    /\ embeddings = <<>>
    /\ provided = <<>>
    /\ clus = NoClusters
    /\ results = <<>>
    /\ files = NoFiles

\* The items getTextEmbeddings is called with: two ids, and the texts of the
\* cache, two of which share a content hash.
EmbedItems == {Item(id, t, {}) : id \in {"0", "x"}, t \in Texts}
EmbedInputs == SeqsUpTo(EmbedItems, MaxItems)

\* getTextEmbeddings(items, { cache }) is entered, the cache loaded from a
\* directory that is empty or holds the file of an earlier run.
EmbedStart ==
    /\ pc = "embed"
    /\ opts = [outDir |-> TRUE, k |-> {}, samples |-> DefaultSamples,
               classifyLlm |-> {}, hasApiKey |-> FALSE]
    /\ embeddings = <<>>
    /\ provided = <<>>
    /\ clus = NoClusters
    /\ results = <<>>
    /\ files = NoFiles
    /\ adapters = BuiltinAdapters
    /\ regs = BuiltinRegs
    /\ input = MissingInput
    /\ \E q \in EmbedInputs : loadRes = [NotLoaded EXCEPT !.status = "ok", !.items = q]
    /\ disk \in {[p \in Paths |-> {}],
                 [p \in Paths |-> IF p = cachePath(DefaultCacheModel) THEN {EarlierFile} ELSE {}]}
    /\ inst = [i \in Slots |->
                 [model |-> DefaultCacheModel,
                  data |-> IF i = RunCache THEN {LoadedData(DefaultCacheModel)} ELSE {},
                  dirty |-> FALSE]]
    /\ hist = [i \in Slots |-> FreshHist]
    /\ lastOp = [op |-> "init"]
    /\ saved = {}
    /\ ops = 0

(***************************************************************************)
(*                          SPECIFICATIONS                                 *)
(***************************************************************************)

CacheInit == CacheStart /\ LoadIdle /\ ClusterIdle /\ ClassifyIdle /\ MainIdle
CacheNext == CacheStep
SpecCache == CacheInit /\ [][CacheNext]_vars

CacheIdle ==
    /\ disk = [p \in Paths |-> {}]
    /\ inst = [i \in Slots |-> [model |-> ModelOther, data |-> {}, dirty |-> FALSE]]
    /\ hist = [i \in Slots |-> FreshHist]
    /\ lastOp = [op |-> "init"]
    /\ saved = {}
    /\ ops = 0

LoadInit == LoadStart /\ CacheIdle /\ ClusterIdle /\ ClassifyIdle /\ MainIdle
LoadNext == AutoLoad
SpecLoad == LoadInit /\ [][LoadNext]_vars

RegistryInit == RegistryStart /\ CacheIdle /\ ClusterIdle /\ ClassifyIdle /\ MainIdle
RegistryNext ==
    \/ RegisterAdapter
    \/ AutoLoad
SpecRegistry == RegistryInit /\ [][RegistryNext]_vars

ClusterInit == ClusterStart /\ CacheIdle /\ LoadIdle /\ ClassifyIdle /\ MainIdle
ClusterNext ==
    \/ ClusterEmbeddings
    \/ FindOptimalK
    \/ GetNearestToCentroid
SpecCluster == ClusterInit /\ [][ClusterNext]_vars

ClassifyInit == ClassifyStart /\ CacheIdle /\ LoadIdle /\ ClusterIdle /\ MainIdle
ClassifyNext ==
    \/ ClassifyHeuristic
    \/ ClassifyWithLLM
SpecClassify == ClassifyInit /\ [][ClassifyNext]_vars

\* Calls of getTextEmbeddings with a loaded cache: each step is one round of its
\* loop, which the provider's exception ends.
EmbedInit == EmbedStart /\ ClusterIdle /\ ClassifyIdle
EmbedNext ==
    \/ MainEmbed
    \/ MainEmbedThrows
SpecEmbed == EmbedInit /\ [][EmbedNext]_vars

\* A run of the command line, over a cache directory that is empty or holds the
\* file of an earlier run.
Init ==
    /\ MainStart
    /\ adapters = BuiltinAdapters
    /\ regs = BuiltinRegs
    /\ \/ input \in Corpora /\ opts \in Options
       \/ input \in LongCorpora /\ opts \in LongCorpusOptions
    /\ loadRes = NotLoaded
    /\ disk \in {[p \in Paths |-> {}],
                 [p \in Paths |-> IF p = cachePath(DefaultCacheModel) THEN {EarlierFile} ELSE {}]}
    /\ inst = [i \in Slots |-> [model |-> DefaultCacheModel, data |-> {}, dirty |-> FALSE]]
    /\ hist = [i \in Slots |-> FreshHist]
    /\ lastOp = [op |-> "init"]
    /\ saved = {}
    /\ ops = 0
    /\ ClusterIdle
    /\ ClassifyIdle

Next ==
    \/ MainLoad
    \/ MainCacheLoad
    \/ MainEmbed
    \/ MainEmbedThrows
    \/ MainCacheSave
    \/ MainCluster
    \/ MainClassify
    \/ MainOutput

Spec == Init /\ [][Next]_vars

(***************************************************************************)
(*                   EMBEDDING CACHE: PROPERTIES                           *)
(***************************************************************************)

\* The vector the history gives for (id, text) on instance i: the one last set
\* under the same id for a text with the same content hash.
LastSetForKey(i, id, text) ==
    LET lt == hist[i].lastText[<<id, hash(text)>>]
    IN  IF lt = {} THEN {}
        ELSE hist[i].lastByPair[<<id, CHOOSE t \in lt : TRUE>>]

\* C6 as stated: on an instance that has only seen set operations, get(id, text)
\* is the vector last set for that same (id, text) pair, and absent when no set
\* was made for that pair.
C6_GetReturnsLastSetForPair ==
    \A i \in Slots : hist[i].onlySets =>
        \A id \in Ids, t \in Texts : get(i, id, t) = hist[i].lastByPair[<<id, t>>]

\* C6 amended: on an instance that has only seen set operations, get(id, text)
\* is the vector last set under that id for a text with the same content hash as
\* text, and absent when no such set was made; a set under the same id with a
\* text of a different hash neither satisfies nor overwrites it.
C6_GetReturnsLastSetForKey ==
    \A i \in Slots : hist[i].onlySets =>
        \A id \in Ids, t \in Texts :
            /\ get(i, id, t) = LastSetForKey(i, id, t)
            /\ (\A t2 \in Texts : hash(t2) = hash(t) => hist[i].lastByPair[<<id, t2>>] = {})
                   => get(i, id, t) = {}

\* C6 witness: one id was set with two texts of different hash and different
\* vectors, then one of them was set again; each get returns its own last vector.
C6_Witness ==
    \E i \in Slots :
        /\ hist[i].onlySets
        /\ lastOp.op = "set" /\ lastOp.inst = i
        /\ hist[i].lastByPair[<<"id1", TextA>>] = {<<1>>}
        /\ hist[i].lastByPair[<<"id1", TextRepl>>] = {<<NaN>>}
        /\ get(i, "id1", TextA) = {<<1>>}
        /\ get(i, "id1", TextRepl) = {<<NaN>>}
        /\ get(i, "id2", TextA) = {}

\* C7 as stated: after the load() of a fresh instance, get(id, text) is v for
\* every set(id, text, v) that an instance with the same model tag made directly
\* before the save() that wrote the current file.
C7_FreshLoadReturnsSavedVector ==
    (lastOp.op = "load" /\ lastOp.fresh) =>
        \A s \in saved : s[1] = inst[lastOp.inst].model =>
            get(lastOp.inst, s[2], s[3]) = {s[4]}

\* C7 amended: after the load() of a fresh instance, get(id, text) is the JSON
\* round trip of v, which is v itself when every component of v is a finite number.
C7_FreshLoadReturnsJsonOfSavedVector ==
    (lastOp.op = "load" /\ lastOp.fresh) =>
        \A s \in saved : s[1] = inst[lastOp.inst].model =>
            /\ get(lastOp.inst, s[2], s[3]) = {JsonRoundTripVec(s[4])}
            /\ (\A j \in DOMAIN s[4] : s[4][j] # NaN) => get(lastOp.inst, s[2], s[3]) = {s[4]}

\* C7 witness: a fresh instance has loaded and returns the finite vector another
\* instance of the same model tag set and saved.
C7_Witness ==
    /\ lastOp.op = "load" /\ lastOp.fresh
    /\ \E s \in saved :
        /\ s[1] = inst[lastOp.inst].model
        /\ s[4] = <<1>>
        /\ \E i \in Slots : i # lastOp.inst /\ inst[i].model = s[1] /\ ~inst[i].dirty
                             /\ get(i, s[2], s[3]) = {s[4]}
        /\ get(lastOp.inst, s[2], s[3]) = {<<1>>}

\* The model tags of the instances whose set() recorded what get(id, text)
\* returns on instance i.
RecordedBy(i, id, text) ==
    {d.embeddings[Key(id, text)].by :
        d \in {x \in DataOf(i) : Key(id, text) \in DOMAIN x.embeddings}}

\* C8: whatever an instance with model tag M returns from get was recorded by a
\* set() on an instance with tag M; and after load() of a file whose tag is not M
\* the instance holds no entry at all.
C8_NoCrossModelVector ==
    /\ \A i \in Slots, id \in Ids, t \in Texts :
          \A by \in RecordedBy(i, id, t) : by = inst[i].model
    /\ (lastOp.op = "load" =>
          LET i == lastOp.inst
              file == disk[cachePath(inst[i].model)]
          IN  (\E f \in file : f.model # inst[i].model) =>
                  \A id \in Ids, t \in Texts : get(i, id, t) = {})

\* C8 witness: an instance has just loaded a file that holds entries written
\* under another model tag, and returns none of them.
C8_Witness ==
    /\ lastOp.op = "load"
    /\ \E f \in disk[cachePath(inst[lastOp.inst].model)] :
          /\ f.model # inst[lastOp.inst].model
          /\ DOMAIN f.embeddings # {}
    /\ \A id \in Ids, t \in Texts : get(lastOp.inst, id, t) = {}

\* C9 as stated: a save() on an instance with no set() since its most recent
\* load() or save() performs no write.
C9_SaveWithoutSetWritesNothing ==
    (lastOp.op = "save" /\ ~lastOp.setSince) => ~lastOp.wrote

(***************************************************************************)
(*                    CORPUS LOADING: PROPERTIES                           *)
(***************************************************************************)

\* The id fields the input's records carry are pairwise distinct.
ExplicitIdsDistinct ==
    \A a, b \in DOMAIN input.lines :
        (a # b /\ input.lines[a].id # {}) => input.lines[a].id # input.lines[b].id

\* C5 as stated: the items autoLoad returns have pairwise distinct ids, for every
\* mix of records with an id field (distinct among themselves) and records that
\* get a sequence number.
C5_LoadedIdsDistinct ==
    (loadRes.status = "ok" /\ ExplicitIdsDistinct) =>
        \A a, b \in DOMAIN loadRes.items :
            a # b => loadRes.items[a].id # loadRes.items[b].id

(***************************************************************************)
(*                       CLUSTERING: PROPERTIES                            *)
(***************************************************************************)

\* C10: for 1 <= k <= n, clusterEmbeddings returns n cluster indices, each in
\* [0, k), and k centroids (and answers, rather than throws).
C10_ClusterShape ==
    (cin.op = "clusterEmbeddings" /\ cout.status # "none"
        /\ cin.k >= 1 /\ cin.k <= Len(cin.embeddings)) =>
        /\ cout.status = "ok"
        /\ Len(cout.result.clusters) = Len(cin.embeddings)
        /\ \A i \in DOMAIN cout.result.clusters :
              cout.result.clusters[i] \in 0..(cin.k - 1)
        /\ Len(cout.result.centroids) = cin.k

\* C10 witness: four vectors were clustered into three clusters, all in use.
C10_Witness ==
    /\ cout.status = "ok"
    /\ Len(cin.embeddings) = 4 /\ cin.k = 3
    /\ {cout.result.clusters[i] : i \in DOMAIN cout.result.clusters} = {0, 1, 2}
    /\ Len(cout.result.centroids) = 3

(***************************************************************************)
(*                     OUTPUT PARTITIONS: PROPERTIES                       *)
(***************************************************************************)

\* The run ended well in multi-file mode.
WroteOutDir == pc = "done" /\ opts.outDir

\* The elements of a sequence, and how often one occurs in it.
Range(seq) == {seq[j] : j \in DOMAIN seq}
Count(seq, x) == Cardinality({j \in DOMAIN seq : seq[j] = x})

\* Whether the cluster item number i was assigned to is rated high.
RatedHigh(i) ==
    \E e \in DOMAIN results : \E r \in results[e] :
        r.id = clus.clusters[i] /\ r.rating = "high"

\* The lines of high.jsonl (or low.jsonl), the files of high/ (or low/).
PartFile(high) == CHOOSE q \in (IF high THEN files.high ELSE files.low) : TRUE
PartDir(high) == CHOOSE d \in (IF high THEN files.highDir ELSE files.lowDir) : TRUE

\* Every cluster member id names a loaded item.
MemberIdsResolve ==
    \A e \in DOMAIN results : \A r \in results[e] :
        \A j \in DOMAIN r.items : find(items, r.items[j]) # {}

\* C1: after a run in multi-file mode every loaded item is written exactly once,
\* to the partition of its cluster's rating and not to the other: its line
\* occurs in each partition file as often as there are items of that rating
\* with that line; in folder mode its file is in the directory of its rating only.
C1_EachItemOnceInItsPartition ==
    WroteOutDir =>
        \A i \in DOMAIN items :
            IF loadRes.adapter = "folder"
            THEN /\ [name |-> items[i].id, text |-> items[i].text] \in PartDir(RatedHigh(i))
                 /\ \A f \in PartDir(~RatedHigh(i)) : f.name # items[i].id
            ELSE \A high \in BOOLEAN :
                    Count(PartFile(high), OutLine(items[i])) =
                        Cardinality({j \in DOMAIN items :
                                        /\ OutLine(items[j]) = OutLine(items[i])
                                        /\ RatedHigh(j) = high})

\* C2: for a corpus whose items all carry their original line, every line of
\* high.jsonl and low.jsonl is a line of the input, and no line is in both.
C2_OriginalLinesInOnePartition ==
    (/\ WroteOutDir
     /\ loadRes.adapter # "folder"
     /\ \A i \in DOMAIN items : items[i].originalLine # {}) =>
        /\ Range(PartFile(TRUE)) \cup Range(PartFile(FALSE)) \subseteq Range(input.lines)
        /\ Range(PartFile(TRUE)) \cap Range(PartFile(FALSE)) = {}

\* C4: for a line-delimited input of any built-in format, every line written to
\* high.jsonl or low.jsonl is, byte for byte, the input line of an item.
C4_WrittenLinesAreInputLines ==
    (WroteOutDir /\ loadRes.adapter # "folder") =>
        \A high \in BOOLEAN : \A j \in DOMAIN PartFile(high) :
            \E n \in DOMAIN input.lines :
                /\ Yields(loadRes.adapter, input.lines[n])
                /\ PartFile(high)[j] = input.lines[n]

(***************************************************************************)
(*                       RUN METADATA: PROPERTIES                          *)
(***************************************************************************)

\* The metadata document the run wrote.
MetaDoc == CHOOSE doc \in files.meta : TRUE

\* C11: the metadata document lists exactly k clusters, k the count it reports:
\* the cluster indices 0 .. k-1, each once, each with at least one member item
\* and at least one sample.
C11_MetadataListsKClusters ==
    pc = "done" =>
        /\ Len(MetaDoc.clusters) = MetaDoc.k
        /\ {MetaDoc.clusters[c].id : c \in DOMAIN MetaDoc.clusters} = 0..(MetaDoc.k - 1)
        /\ \A c \in DOMAIN MetaDoc.clusters :
              /\ Len(MetaDoc.clusters[c].items) >= 1
              /\ Len(MetaDoc.clusters[c].samples) >= 1


\* A call of findOptimalK that has returned or thrown.
FoundK == cin.op = "findOptimalK" /\ cout.status # "none"

\* C12 as stated: findOptimalK returns min(n, 2) for n < 3 vectors, and for
\* n >= 3 a value k with 2 <= k <= maxK, maxK the override or the default.
C12_KWithinTwoAndMaxK ==
    FoundK =>
        LET n == Len(cin.embeddings)
            maxK == MaxKOf(n, cin.kMax)
        IN  /\ cout.status = "ok"
            /\ n < 3 => cout.result.k = Min(n, 2)
            /\ n >= 3 => (2 <= cout.result.k /\ cout.result.k <= maxK)

\* C12, amended: findOptimalK returns min(n, 2) for n < 3 vectors; for n >= 3 it
\* returns a value k with 2 <= k <= max(2, maxK) when maxK <= n (so 2 when the
\* override is below 2), and throws when maxK > n.
C12_KWithinTwoAndMaxKOrThrows ==
    FoundK =>
        LET n == Len(cin.embeddings)
            maxK == MaxKOf(n, cin.kMax)
        IN  /\ n < 3 => (cout.status = "ok" /\ cout.result.k = Min(n, 2))
            /\ (n >= 3 /\ maxK <= n) =>
                  /\ cout.status = "ok"
                  /\ 2 <= cout.result.k
                  /\ cout.result.k <= Max(2, maxK)
            /\ (n >= 3 /\ maxK > n) => cout.status = "error"

\* Four vectors, candidates 2 to 4: the elbow is the candidate in between.
C12_Witness ==
    /\ FoundK
    /\ Len(cin.embeddings) = 4 /\ cin.kMax = {4}
    /\ cout.status = "ok" /\ cout.result.k = 3


\* The deviation of candidate k from the line through (2, inertia(2)) and
\* (maxK, inertia(maxK)), times maxK - 2, for the inertias a call computed.
LineDeviation(inertias, k) ==
    LET maxK == Len(inertias) + 1
        off == (inertias[k - 1] - inertias[1]) * (maxK - 2)
                  - (inertias[maxK - 1] - inertias[1]) * (k - 2)
    IN  IF off < 0 THEN 0 - off ELSE off

\* C13: for n >= 3 and maxK > 2, findOptimalK returns the candidate k in
\* 2 .. maxK whose inertia deviates most from the line through the first and the
\* last candidate's inertia, the smallest such k when several deviate most.
C13_ReturnsSmallestMaxDeviation ==
    (FoundK /\ cout.status = "ok" /\ Len(cin.embeddings) >= 3
        /\ MaxKOf(Len(cin.embeddings), cin.kMax) > 2) =>
        LET maxK == MaxKOf(Len(cin.embeddings), cin.kMax)
            inertias == cout.result.inertias
            k == cout.result.k
        IN  /\ k \in 2..maxK
            /\ \A j \in 2..maxK : LineDeviation(inertias, j) <= LineDeviation(inertias, k)
            /\ \A j \in 2..(k - 1) : LineDeviation(inertias, j) < LineDeviation(inertias, k)


\* A call of getNearestToCentroid that has returned.
Sampled == cin.op = "getNearestToCentroid" /\ cout.status = "ok"

\* the squared distance of embedding i to the centroid of the sampling call
ToCentroid(i) == squaredDistance(cin.embeddings[i], cin.centroid)

\* C14: getNearestToCentroid returns min(n, |indices|) of the given member
\* indices, in order of non-decreasing squared distance to the centroid; every
\* omitted member is at least as far as every returned one; with fewer than n
\* members all are returned.
C14_NearestMembersInOrder ==
    Sampled =>
        LET members == Range(cin.indices)
            returned == Range(cout.result)
        IN  /\ Len(cout.result) = Min(cin.n, Len(cin.indices))
            /\ returned \subseteq members
            /\ Cardinality(returned) = Len(cout.result)
            /\ \A a, b \in DOMAIN cout.result :
                  a < b => ToCentroid(cout.result[a]) <= ToCentroid(cout.result[b])
            /\ \A i \in members \ returned : \A j \in returned :
                  ToCentroid(i) >= ToCentroid(j)
            /\ Len(cin.indices) < cin.n => returned = members

\* Two of three members are asked for; the nearest is not the first given, and
\* the omitted one is strictly farther than both returned.
C14_Witness ==
    /\ Sampled
    /\ Len(cin.indices) = 3 /\ cin.n = 2 /\ Len(cout.result) = 2
    /\ cout.result[1] # cin.indices[1]
    /\ \E i \in Range(cin.indices) \ Range(cout.result) :
          ToCentroid(i) > ToCentroid(cout.result[2])


\* A call of classifyHeuristic that has returned.
Rated == qin.op = "classifyHeuristic" /\ qout.status = "ok"

\* the lowercase tokens of all samples of the call
SampleTokens == Flatten([j \in DOMAIN qin.samples |-> Words(qin.samples[j])])

\* unique tokens / total tokens > 0.30
DiversityAbove ==
    /\ SampleTokens # <<>>
    /\ 100 * Cardinality(Range(SampleTokens)) > 30 * Len(SampleTokens)

\* mean sample character length > 100
MeanLengthAbove ==
    SumOver([j \in DOMAIN qin.samples |-> CharLen(qin.samples[j])], DOMAIN qin.samples)
        > 100 * Len(qin.samples)

\* fraction of tokens longer than 6 characters > 0.15
SophisticationAbove ==
    /\ SampleTokens # <<>>
    /\ 100 * Cardinality({j \in DOMAIN SampleTokens : WordLen(SampleTokens[j]) >= 7})
          > 15 * Len(SampleTokens)

\* C15: classifyHeuristic rates a non-empty sample list high if and only if the
\* diversity is above 0.30, the mean sample length above 100 and the fraction
\* of tokens longer than 6 characters above 0.15; otherwise, and for an empty
\* list, it rates low.
C15_HighIffThreeSignals ==
    Rated =>
        IF qin.samples # <<>> /\ DiversityAbove /\ MeanLengthAbove /\ SophisticationAbove
        THEN qout.verdict.rating = "high"
        ELSE qout.verdict.rating = "low"

\* Two samples that together pass the three thresholds, one of which alone
\* does not.
C15_Witness ==
    /\ Rated
    /\ qin.samples = <<TextRich, TextEdge>>
    /\ qout.verdict.rating = "high"


\* A call of classifyWithLLM that has returned or thrown.
LlmCalled == qin.op = "classifyWithLLM" /\ qout.status # "none"

\* The call had a key to send, so it issued its request and got qin.response.
KeyPresent == ApiKeyOf(qin.optionKey, qin.envKey) \notin {{}, {""}}

\* the message content is there and is not JSON
ContentMalformed ==
    \E c \in qin.response.content : ~c.parses

\* C16: when the transport response is a success, classifyWithLLM does not
\* raise; an error embedded in the response gives api_error / low, and a body
\* or a message content that does not parse gives parse_error / low.
C16_SuccessNeverRaises ==
    (LlmCalled /\ KeyPresent /\ qin.response.ok) =>
        /\ qout.status = "ok"
        /\ (qin.response.body = "object" /\ qin.response.error) =>
              qout.verdict = Verdict(<<"api_error">>, "low")
        /\ (qin.response.body = "malformed"
              \/ (qin.response.body = "object" /\ ~qin.response.error /\ ContentMalformed)) =>
              qout.verdict = Verdict(<<"parse_error">>, "low")


\* the parsed message content rates exactly "high"
ContentRatesHigh ==
    \E c \in qin.response.content : c.parses /\ c.rating = {"high"}

\* the message content is absent or parses, and has no tag
ContentWithoutTag ==
    \A c \in qin.response.content : c.parses /\ c.tag = {}

\* C17: in every outcome of classifyWithLLM that is a verdict, the rating is high
\* only when the response carries no error and the parsed content's rating is
\* exactly "high"; every other, unrecognized or missing rating gives low, and a
\* missing tag gives the tag unknown.
C17_RatingFailsClosed ==
    (LlmCalled /\ qout.status = "ok") =>
        /\ qout.verdict.rating = "high" => (~qin.response.error /\ ContentRatesHigh)
        /\ ~ContentRatesHigh => qout.verdict.rating = "low"
        /\ (~qin.response.error /\ ContentWithoutTag) => qout.verdict.tag = <<"unknown">>

\* A content whose rating is "HIGH" and that has no tag: unknown, low.
C17_Witness ==
    /\ LlmCalled /\ qout.status = "ok"
    /\ ~qin.response.error
    /\ qin.response.content = {Content(TRUE, {}, {"HIGH"})}
    /\ qout.verdict = Verdict(<<"unknown">>, "low")

\* C18: on a transport response that is not a success classifyWithLLM raises,
\* gives no verdict, and has issued exactly one request.
C18_TransportFailureRaisesOnce ==
    (LlmCalled /\ KeyPresent /\ ~qin.response.ok) =>
        /\ qout.status = "error"
        /\ qout.verdict = Thrown
        /\ qout.requests = 1

\* A failed transport whose body would have rated the cluster high.
C18_Witness ==
    /\ LlmCalled /\ KeyPresent
    /\ ~qin.response.ok /\ ContentRatesHigh
    /\ qout.status = "error" /\ qout.requests = 1

\* C19: with neither the apiKey option nor OPENROUTER_API_KEY present,
\* classifyWithLLM raises 'OPENROUTER_API_KEY not set' before any request.
C19_MissingKeyRaisesBeforeRequest ==
    (LlmCalled /\ qin.optionKey = {} /\ qin.envKey = {}) =>
        /\ qout.status = "error"
        /\ qout.message = "OPENROUTER_API_KEY not set"
        /\ qout.requests = 0

\* No key anywhere, and an endpoint that would have answered with a high rating.
C19_Witness ==
    /\ LlmCalled /\ qin.optionKey = {} /\ qin.envKey = {}
    /\ qin.response.ok /\ ContentRatesHigh
    /\ qout.status = "error" /\ qout.requests = 0


\* the adapter registered by the j-th latest registerAdapter call
LatestRegistered(j) == regs[Len(regs) + 1 - j]

\* C20: after any sequence of registerAdapter calls, autoLoad probes the
\* adapters most recently registered first, loads with the first whose detect
\* answers true and calls the load of that adapter only; so a matching adapter
\* registered later overrides every one registered earlier, built-ins included.
C20_LatestMatchingAdapterLoads ==
    loadRes.status # "none" =>
        LET probed == loadRes.probed
        IN  /\ Len(probed) <= Len(regs)
            /\ \A j \in DOMAIN probed : probed[j] = LatestRegistered(j)
            /\ \A j \in DOMAIN probed : j < Len(probed) => ~detect(probed[j], input)
            /\ IF \E j \in DOMAIN regs : detect(regs[j], input)
               THEN /\ loadRes.status = "ok"
                    /\ probed # <<>>
                    /\ detect(probed[Len(probed)], input)
                    /\ loadRes.adapter = probed[Len(probed)]
                    /\ loadRes.loaded = <<loadRes.adapter>>
                    /\ loadRes.items = load(loadRes.adapter, input)
               ELSE /\ loadRes.status = "error"
                    /\ Len(probed) = Len(regs)
                    /\ loadRes.loaded = <<>>

\* A custom adapter registered after one that detects nothing overrides the
\* built-in text adapter, which detects the input too.
C20_Witness ==
    /\ loadRes.status = "ok"
    /\ regs = BuiltinRegs \o <<"custom-file", "custom-none">>
    /\ detect("text-jsonl", input)
    /\ loadRes.probed = <<"custom-none", "custom-file">>
    /\ loadRes.adapter = "custom-file"
    /\ loadRes.loaded = <<"custom-file">>


\* A well-formed line of the format kd: it parses, has the fields of kd, and
\* the extraction rule of kd yields a text.
WellFormedFor(kd, line) == line.kind = kd /\ line.text # ""

\* The input is a line-delimited corpus of the format kd with bad lines in it:
\* a file whose lines are unparsable or well-formed for kd, at least one of
\* them well-formed.
CorpusWithBadLines(kd) ==
    /\ input.type = "file"
    /\ \A j \in DOMAIN input.lines :
          input.lines[j] = GarbageLine \/ WellFormedFor(kd, input.lines[j])
    /\ \E j \in DOMAIN input.lines : WellFormedFor(kd, input.lines[j])

\* the texts of the well-formed lines of the input file, in file order
WellFormedTexts(kd) ==
    LET kept == SelectSeq(input.lines, LAMBDA l : WellFormedFor(kd, l))
    IN  TupleFrom([j \in DOMAIN kept |-> kept[j].text], 1, Len(kept))

\* the texts of the loaded items, in their order
LoadedTexts ==
    TupleFrom([j \in DOMAIN loadRes.items |-> loadRes.items[j].text], 1,
              Len(loadRes.items))

\* C21: autoLoad of a line-delimited corpus skips an unparsable line at any
\* position and loads every well-formed line, in file order; a bad line never
\* aborts the load.
C21_BadLinesSkippedRestLoaded ==
    \A kd \in FormatKinds :
        (loadRes.status # "none" /\ CorpusWithBadLines(kd)) =>
            /\ loadRes.status = "ok"
            /\ LoadedTexts = WellFormedTexts(kd)


\* The items the clustering assigned to the cluster of the metadata entry c.
MembersOf(c) == {i \in DOMAIN clus.clusters : clus.clusters[i] = c.id}

\* The arrangements of the members of c by non-decreasing squared distance to
\* the centroid of c.
NearestOrders(c) ==
    {q \in [1..Cardinality(MembersOf(c)) -> MembersOf(c)] :
        /\ \A a, b \in DOMAIN q : a # b => q[a] # q[b]
        /\ \A a, b \in DOMAIN q :
              a < b => squaredDistance(embeddings[q[a]], clus.centroids[c.id + 1])
                       <= squaredDistance(embeddings[q[b]], clus.centroids[c.id + 1])}

\* C22: the clusters of the metadata document are in order of non-increasing
\* member count, and each carries at most 3 sample texts: the texts of the
\* first members of the cluster in order of distance to its centroid.
C22_SortedBySizeThreeNearestSamples ==
    pc = "done" =>
        /\ \A a, b \in DOMAIN MetaDoc.clusters :
              a < b => Len(MetaDoc.clusters[a].items) >= Len(MetaDoc.clusters[b].items)
        /\ \A j \in DOMAIN MetaDoc.clusters :
              LET c == MetaDoc.clusters[j]
              IN  /\ Len(c.samples) <= 3
                  /\ \E q \in NearestOrders(c) :
                        /\ Len(c.samples) = Min(3, Len(q))
                        /\ \A i \in DOMAIN c.samples : c.samples[i] = items[q[i]].text

\* A cluster of four members is listed with three samples, its first item, the
\* farthest from the centroid, not among them.
C22_Witness ==
    /\ pc = "done"
    /\ \E j \in DOMAIN MetaDoc.clusters :
          LET c == MetaDoc.clusters[j]
          IN  /\ Len(c.items) = 4
              /\ Len(c.samples) = 3
              /\ 1 \in MembersOf(c)
              /\ \A i \in DOMAIN c.samples : c.samples[i] # items[1].text

\* Some output path has been written.
SomeFileWritten == files # NoFiles

\* Every classifyOne of the run has resolved.
AllResolved == \A e \in DOMAIN results : results[e] # {}

\* main ended in its catch handler after the classification calls were issued.
ClassificationFailed == pc = "failed" /\ results # <<>>

\* C23: the classification calls resolve in any order; no metadata or partition
\* file is written before every one of them has resolved, and when one of them
\* fails fatally no output file is written at all.
C23_OutputWaitsForAllClassifications ==
    /\ SomeFileWritten => (pc = "done" /\ AllResolved)
    /\ ClassificationFailed => ~SomeFileWritten

\* The files of a run that classified two or more clusters with the LLM are
\* written, every classification resolved.
C23_Witness ==
    /\ SomeFileWritten
    /\ useLlm
    /\ Len(results) >= 2
    /\ AllResolved

\* main ended in its catch handler after cache.load().
AbortedAfterCacheLoad == pc = "failed" /\ DataOf(RunCache) # {}

\* The cache file of the run holds the vector computed for item number i.
Persisted(i) ==
    \E file \in disk[cachePath(DefaultCacheModel)] :
        /\ Key(items[i].id, items[i].text) \in DOMAIN file.embeddings
        /\ file.embeddings[Key(items[i].id, items[i].text)].vec
              = JsonRoundTripVec(embeddings[i])

\* C24: when the run aborts after the cache was loaded, every vector the
\* provider computed and the cache recorded before the failure is in the cache
\* file.
C24_ComputedVectorsPersistedOnAbort ==
    AbortedAfterCacheLoad =>
        \A j \in DOMAIN provided :
            provided[j] <= Len(embeddings) => Persisted(provided[j])

\* The cache key of item number i.
KeyOf(i) == Key(items[i].id, items[i].text)

\* The keys, and the (id, text) pairs behind them, of the cache file the run
\* loaded. getTextEmbeddings never writes the file.
FileKeys == DOMAIN LoadedData(DefaultCacheModel).embeddings
FilePairs == IF FileKeys = {} THEN {} ELSE {<<"0", TextA>>}

\* When item number i is processed the cache holds its key: the file did, or an
\* earlier item of the call had it.
KeyCachedWhenProcessed(i) ==
    KeyOf(i) \in FileKeys \/ \E j \in 1..(i - 1) : KeyOf(j) = KeyOf(i)

\* When item number i is processed the cache holds its (id, text): the file did,
\* or an earlier item of the call was the same (id, text).
PairCachedWhenProcessed(i) ==
    \/ <<items[i].id, items[i].text>> \in FilePairs
    \/ \E j \in 1..(i - 1) : items[j].id = items[i].id /\ items[j].text = items[i].text

\* Item number i has been processed, or the provider threw on it.
Attempted(i) == i <= Len(embeddings) \/ (pc = "failed" /\ i = Len(embeddings) + 1)

\* Every processed item has its vector at its own position, the provider's
\* when the provider was invoked for it, and the cache returns that vector.
VectorsInOrderAndRecorded ==
    /\ Len(embeddings) <= Len(items)
    /\ \A i \in 1..Len(embeddings) :
          /\ get(RunCache, items[i].id, items[i].text) = {embeddings[i]}
          /\ Count(provided, i) = 1 => embeddings[i] = Embed(items[i].text)

\* C25 as stated: one vector per item in item order; the provider is invoked
\* exactly once for each item whose (id, text) is absent from the cache when it
\* is processed and never for an item found there; each computed vector is in
\* the cache before the next item is processed.
C25_ProviderOncePerAbsentPair ==
    /\ VectorsInOrderAndRecorded
    /\ \A i \in DOMAIN items :
          Count(provided, i) = IF Attempted(i) /\ ~PairCachedWhenProcessed(i) THEN 1 ELSE 0

\* C25 amended: the same, with absence from the cache that of the item's cache
\* key, its id with the content hash of its text.
C25_ProviderOncePerAbsentKey ==
    /\ VectorsInOrderAndRecorded
    /\ \A i \in DOMAIN items :
          Count(provided, i) = IF Attempted(i) /\ ~KeyCachedWhenProcessed(i) THEN 1 ELSE 0

\* A call over three items has returned: the provider was invoked for one of
\* them, the file served another, and a repeated item was served from what the
\* call itself recorded.
C25_Witness ==
    /\ pc = "embed"
    /\ Len(items) = 3 /\ Len(embeddings) = 3
    /\ \E i, j, l \in DOMAIN items :
          /\ Count(provided, i) = 1
          /\ i < j /\ items[j] = items[i] /\ Count(provided, j) = 0
          /\ KeyOf(l) \in FileKeys /\ Count(provided, l) = 0

\* A call of findOptimalK has returned a k, every deviation computed exactly.
FoundKExactly == FoundK /\ cout.status = "ok" /\ cout.result.ties = {}

\* maxK of the call: kMax, or the default for the number of vectors.
MaxKOfCall == MaxKOf(Len(cin.embeddings), cin.kMax)

\* C26: in exact arithmetic findOptimalK never returns maxK when maxK > 2; when
\* the candidates are 2 and 3 only, as they are by default for every n from 3 to
\* 42, it returns 2 whatever the data.
C26_NeverReturnsMaxK ==
    FoundKExactly =>
        /\ MaxKOfCall > 2 => cout.result.k # MaxKOfCall
        /\ (Len(cin.embeddings) >= 3 /\ MaxKOfCall = 3) => cout.result.k = 2
        /\ cin.kMax = {} => \A n \in 3..42 : DefaultMaxK(n) = 3

\* By default, over three or more vectors that are not all equal, 2 is
\* returned: the inertia of 3 clusters is lower than that of 2, and both
\* deviations are 0.
C26_Witness ==
    /\ FoundKExactly
    /\ cin.kMax = {}
    /\ Len(cin.embeddings) >= 3
    /\ Len(cout.result.inertias) = 2
    /\ cout.result.inertias[2] < cout.result.inertias[1]
    /\ cout.result.k = 2

\* The entry set of the cache file of model tag m as load() takes it: the
\* file's, or the empty set when there is no file or its tag is another.
FileEntries(m) ==
    IF \E f \in disk[cachePath(m)] : f.model = m
    THEN (CHOOSE f \in disk[cachePath(m)] : TRUE).embeddings
    ELSE EmptyMap

\* The vector an entry set holds for (id, text): {} when it holds none.
Holds(entries, id, text) ==
    IF Key(id, text) \in DOMAIN entries THEN {entries[Key(id, text)].vec} ELSE {}

\* The entry set instance i has in memory after the step.
EntriesAfter(i) == (CHOOSE d \in inst'[i].data : TRUE).embeddings

\* The step is load() on instance i; the step is load() on i directly after
\* a set() on i; the step is save() on i, whose dirty flag has been raised
\* since before its last load() with no set() since.
LoadStep(i) == lastOp'.op = "load" /\ lastOp'.inst = i
LoadAfterSetStep(i) == LoadStep(i) /\ lastOp.op = "set" /\ lastOp.inst = i
SaveAfterLoadStep(i) ==
    /\ lastOp'.op = "save" /\ lastOp'.inst = i
    /\ inst[i].dirty /\ ~hist[i].onlySets /\ ~hist[i].setSince

\* load() replaces the in-memory entry set with the file's and leaves the dirty
\* flag as it is; the save() after it writes the set in memory, the loaded one.
LoadReplacesSaveWritesLoaded(i) ==
    /\ LoadStep(i) =>
          /\ inst'[i].data # {}
          /\ EntriesAfter(i) = FileEntries(inst[i].model)
          /\ inst'[i].dirty = inst[i].dirty
    /\ LoadAfterSetStep(i) => inst'[i].dirty
    /\ SaveAfterLoadStep(i) =>
          /\ lastOp'.wrote
          /\ \E f \in disk'[cachePath(inst[i].model)] :
                /\ DOMAIN f.embeddings = DOMAIN (CHOOSE d \in inst[i].data : TRUE).embeddings
                /\ \A key \in DOMAIN f.embeddings :
                      f.embeddings[key].vec =
                          JsonRoundTripVec((CHOOSE d \in inst[i].data : TRUE).embeddings[key].vec)

\* C27 as stated: load() replaces the whole in-memory entry set with the file's
\* contents (or an empty set), so that after a load() that follows a set() the
\* vector that set() recorded is no longer returned by get(); the dirty flag
\* the set() raised stays raised and the next save() writes the loaded set.
C27_UnsavedEntryGoneAfterLoad ==
    [][\A i \in Slots :
          /\ LoadReplacesSaveWritesLoaded(i)
          /\ LoadAfterSetStep(i) =>
                lastOp.vec \notin Holds(EntriesAfter(i), lastOp.id, lastOp.text)]_vars

\* C27 amended: after a load() that follows a set(), get() returns for the
\* (id, text) of that set() what the file holds under its key, and nothing when
\* the file holds no such entry.
C27_GetAfterLoadIsTheFiles ==
    [][\A i \in Slots :
          /\ LoadReplacesSaveWritesLoaded(i)
          /\ LoadAfterSetStep(i) =>
                /\ Holds(EntriesAfter(i), lastOp.id, lastOp.text)
                      = Holds(FileEntries(inst[i].model), lastOp.id, lastOp.text)
                /\ Holds(FileEntries(inst[i].model), lastOp.id, lastOp.text) = {}
                      => Holds(EntriesAfter(i), lastOp.id, lastOp.text) = {}]_vars

\* An instance whose only set() was followed by load() has saved: the save
\* wrote, with no set() since the load, and the file holds no entry.
C27_Witness ==
    /\ lastOp.op = "save" /\ lastOp.wrote /\ ~lastOp.setSince
    /\ ops = 3
    /\ disk[cachePath(inst[lastOp.inst].model)] = {EmptyData(inst[lastOp.inst].model)}
    /\ ~inst[lastOp.inst].dirty
=============================================================================
